---- MODULE Spec2Model ----
(***************************************************************************)
(* Model of the proof service of styx-clarity-service (src/src/server.ts). *)
(*                                                                         *)
(* The orchestration state is the four module-level maps of server.ts     *)
(* (kennyProofCache, ongoingKennyRequests, kennyRequestTracker, kennyJobs) *)
(* plus the promises returned by processKennyRequest and the callers that *)
(* await them.  Every Express handler is one action.  A handler runs to   *)
(* its first await without interruption (Node runs one callback at a      *)
(* time), and the reactions of a settled promise run as microtasks before  *)
(* the next request callback, which is what MicrotasksDrained encodes.     *)
(***************************************************************************)
EXTENDS Integers, Sequences, FiniteSets, TLC

\* ------------------------------------------------------------------ bounds
MaxComps == 2        \* processKennyRequest executions alive at one time
MaxWaiters == 2      \* requestProof callers suspended in an await at one time
MaxSegments == 4     \* pieces a coinbase serialization is put together from
MaxChunks == 3       \* 32-byte hashes in a proof of the proof library
MaxBlockTxs == 4     \* transactions of a block handed to the proof library
MaxIns == 2          \* inputs of a transaction handed to the decoder
MaxOuts == 2         \* outputs of a transaction handed to the decoder
LongScript == 253    \* bytes of the longest script of such a transaction
MaxFeeRate == 300    \* highest fee rate of the node, in millionths of BTC/kvB
MaxLeaves == 5       \* leaves of a Merkle tree handed to the Merkle engine

\* ------------------------------------------------------- program constants
KENNY_RATE_LIMIT == 5
CONVERSION_FACTOR == 100000
MAX_LOW == 5
MAX_MEDIUM == 10
MAX_HIGH == 20
\* fee rates are counted in millionths of BTC/kvB: 0.000002 is 2
FeeUnit == 1000000
DefaultFeeRate == 2
KENNY_RATE_WINDOW == 3600000

API_KEY == "key"

\* ------------------------------------------------------------ input domains
TxIds == {"t1", "t2"}
ApiKeys == {API_KEY, "other"}
\* what a processKennyRequest execution can resolve to / reject with
Results == {"proofA", "proofB"}
Errors == {"errX"}
\* the instants at which Date.now() is sampled
Instants == {1, KENNY_RATE_WINDOW, KENNY_RATE_WINDOW + 1}

\* the hashes a Merkle tree is built from, two bytes each
Leaves == {<<"a", "1">>, <<"b", "2">>, <<"c", "3">>, <<"d", "4">>, <<"e", "5">>,
           <<"f", "6">>}

\* the lists of distinct leaves
LeafLists ==
    {L \in UNION {[1..n -> Leaves] : n \in 1..MaxLeaves} :
        \A i, j \in 1..Len(L) : L[i] = L[j] => i = j}

\* A hex string that is scanned or cut is the sequence of its characters.
Rep(chars, n) == [i \in 1..(n * Len(chars)) |-> chars[((i - 1) % Len(chars)) + 1]]

\* the pieces of a coinbase serialization: version bytes, the OP_RETURN push
\* of a witness commitment (in either case), the bare commitment tag, a
\* non-zero and the all-zero 32-byte value
Filler == <<"0", "1", "0", "0", "0", "0", "0", "0">>
Marker == <<"6", "a", "2", "4", "a", "a", "2", "1", "a", "9", "e", "d">>
MarkerUpper == <<"6", "A", "2", "4", "A", "A", "2", "1", "A", "9", "E", "D">>
Tag == <<"a", "a", "2", "1", "a", "9", "e", "d">>
Hash32 == Rep(<<"b", "7">>, 32)
Zero32 == Rep(<<"0">>, 64)

Segments == {Filler, Marker, MarkerUpper, Tag, Hash32, Zero32}

RECURSIVE Flatten(_)
Flatten(ss) == IF Len(ss) = 0 THEN <<>> ELSE ss[1] \o Flatten(Tail(ss))

\* the coinbase serializations handed to the commitment resolver
Coinbases ==
    {Flatten(ss) : ss \in UNION {[1..n -> Segments] : n \in 1..MaxSegments}}

\* the serialization of a transaction with one input and one output, without
\* and with the segwit marker, flag and witness
TxVersion == <<"0", "1", "0", "0", "0", "0", "0", "0">>
TxInput == <<"0", "1">> \o Hash32 \o Rep(<<"0">>, 8) \o <<"0", "1", "5", "1">> \o Rep(<<"f">>, 8)
TxOutput == <<"0", "1", "e", "8", "0", "3">> \o Rep(<<"0">>, 12) \o <<"0", "1", "5", "1">>
TxLocktime == <<"9", "a", "b", "c", "0", "d", "0", "0">>
LegacyTx == TxVersion \o TxInput \o TxOutput \o TxLocktime
SegwitTx ==
    TxVersion \o <<"0", "0", "0", "1">> \o TxInput \o TxOutput
        \o <<"0", "1", "0", "1", "a", "b">> \o TxLocktime

WholeTxs == {LegacyTx, SegwitTx}

\* what arrives as proof.transaction: a whole serialization or one cut short
\* at any character, with or without the 0x prefix
RawTxs ==
    LET cut == UNION {{SubSeq(t, 1, n) : n \in 0..Len(t)} : t \in WholeTxs}
    IN cut \cup {<<"0", "x">> \o t : t \in cut}

\* what arrives as proof.witnessMerkleProof: nothing, or whole 32-byte
\* hashes one after the other, possibly followed by a fragment of one, with
\* or without the 0x prefix; and as proof.coinbaseMerkleProof
Chunk32 == Rep(<<"c", "4">>, 32)

WholeProofs ==
    {Flatten(cs) : cs \in UNION {[1..n -> {Hash32, Chunk32}] : n \in 0..MaxChunks}}

WitnessMerkleProofs ==
    LET cut == WholeProofs \cup {w \o Filler : w \in WholeProofs}
    IN {<<"undefined">>} \cup cut \cup {<<"0", "x">> \o w : w \in cut}

CoinbaseMerkleProofs == {Rep(Hash32, n) : n \in 0..MaxChunks}

\* the blocks of the node: index 0 is the coinbase; hash is the wtxid
ZeroHash == "0000"

Tx(txid, hash, rawHex) == [txid |-> txid, hash |-> hash, hex |-> rawHex]

\* the serialization of a coinbase with a witness commitment and of one
\* without
CommittingCoinbase == Filler \o Marker \o Hash32 \o Filler
PlainCoinbase == Filler \o Filler

\* hex.decode of the ids: two bytes each, every byte one token
HexDecode ==
    [c1 |-> <<"c", "1">>, t1 |-> <<"t", "1">>, cw1 |-> <<"cw", "1">>, w1 |-> <<"w", "1">>,
     c2 |-> <<"c", "2">>, t2 |-> <<"t", "2">>, w2 |-> <<"w", "2">>,
     t3 |-> <<"t", "3">>, w3 |-> <<"w", "3">>, t4 |-> <<"t", "4">>, w4 |-> <<"w", "4">>]
        @@ (ZeroHash :> <<"0", "0">>)

\* merkleroot is the header's root as getblock prints it, byte-reversed with
\* respect to the hash of the (byte-reversed) txids.  bC is a block whose
\* reported root is not the root of its transactions.
Chain ==
    [bA |-> [height |-> 100, tx |-> <<Tx("c1", "cw1", CommittingCoinbase),
                                      Tx("t1", "w1", SegwitTx)>>,
             merkleroot |-> <<"]", "t", "1", "c", "1", "[">>],
     bB |-> [height |-> 101, tx |-> <<Tx("c2", "c2", PlainCoinbase),
                                      Tx("t2", "t2", LegacyTx)>>,
             merkleroot |-> <<"]", "t", "2", "c", "2", "[">>],
     bC |-> [height |-> 102, tx |-> <<Tx("c2", "c2", PlainCoinbase),
                                      Tx("t2", "t2", LegacyTx)>>,
             merkleroot |-> <<"]", "t", "1", "c", "1", "[">>]]

BlockHashes == DOMAIN Chain

\* the blocks getrawtransaction names
ActiveChain == {"bA", "bB"}

\* the blockhash field of getrawtransaction's answer
BlockOf(t) == CHOOSE b \in ActiveChain : \E i \in 1..Len(Chain[b].tx) : Chain[b].tx[i].txid = t

TxInfos == {"blockhash", "error", "none", "throw"}
Parses == {"ok", "Unknown version", "Invalid"}

\* the value JavaScript reads past the end of an array or from a variable
\* that was never assigned
Undefined == <<"undefined">>

NoResult == "none"
NoError == "none"
NoPromise == 0
NoUsage == [count |-> 0, resetTime |-> 0]
NoJobId == <<"none", "none", 0>>
NoJob == [status |-> "absent", result |-> NoResult, error |-> NoError, startTime |-> 0]

\* no library call is being made
NoArgs == [fn |-> "none"]
NoRet == [fn |-> "none"]

VARIABLES
    kennyProofCache,        \* txid -> cached proof or NoResult
    ongoingKennyRequests,   \* txid -> promise id or NoPromise
    kennyRequestTracker,    \* rate-limit key -> usage record or NoUsage
    kennyJobs,              \* jobId -> job record or NoJob
    promises,               \* promise id -> the processKennyRequest execution
    waiters,                \* promise id -> requestProof callers awaiting it
    now,                    \* Date.now()
    resp,                   \* the response sent by the last step
    seen,                   \* history: txid -> first value observed completed
    cleared,                \* history: a cache-clear operation was executed
    args,                   \* the arguments of a library call (arrays are mutable)
    ret                     \* what the last library call returned

vars == <<kennyProofCache, ongoingKennyRequests, kennyRequestTracker, kennyJobs,
          promises, waiters, now, resp, seen, cleared, args, ret>>

\* the state of the pure functions, which no route handler touches
lib == <<args, ret>>

\* the state of the server, which no pure function touches
server == <<kennyProofCache, ongoingKennyRequests, kennyRequestTracker, kennyJobs,
            promises, waiters, now, resp, seen, cleared>>

orchestrator == <<kennyProofCache, ongoingKennyRequests, kennyRequestTracker,
                  kennyJobs, promises, waiters>>

\* ---------------------------------------------------------------- helpers
Pids == 1..MaxComps

\* Math.ceil(n / d) for n >= 0, d > 0
Ceil(n, d) == (n + d - 1) \div d

\* Math.round(n / d) for n >= 0, d > 0 (halves round up)
Round(n, d) == (2 * n + d) \div (2 * d)

RateLimitKey(k) == <<k, "kenny">>

KennyJobId(t, n) == <<"kenny", t, n>>

ExistingJobId(t) == <<"existing", t, 0>>

JobIds == {KennyJobId(t, n) : t \in TxIds, n \in Instants}
            \cup {ExistingJobId(t) : t \in TxIds}

\* The job ids a client can have been given by now
PollIds == {j \in JobIds : j[3] <= now}

UnusedPromise ==
    [txid |-> "none", st |-> "unused", val |-> NoResult,
     starter |-> "none", jobId |-> NoJobId]

\* The processKennyRequest executions for txid t that have not settled
InFlight(t) == {p \in Pids : promises[p].st = "pending" /\ promises[p].txid = t}

\* The requestProof callers suspended in STEP 3
RECURSIVE Awaiting(_)
Awaiting(n) == IF n = 0 THEN 0 ELSE waiters[n] + Awaiting(n - 1)

\* No settled promise still has an awaiting caller to resume
MicrotasksDrained ==
    ~\E p \in Pids : waiters[p] > 0 /\ promises[p].st \in {"fulfilled", "rejected"}

\* {} : what extractProofInfo returns when its try block threw
EmptyProofSet ==
    [txId |-> "none", txIndex |-> -1, segwit |-> FALSE, height |-> 0, merkleRoot |-> <<>>,
     treeDepth |-> 0, wproof |-> <<>>, cproof |-> <<>>,
     computedWtxidRoot |-> Undefined, witnessReservedValue |-> Undefined,
     witnessMerkleRoot |-> Undefined]

NoResp ==
    [op |-> "none", txid |-> "none", http |-> 0, status |-> "none",
     result |-> NoResult, error |-> NoError, jobId |-> NoJobId,
     retryAfter |-> 0, runtime |-> 0, via |-> "none", blockHash |-> "",
     proof |-> EmptyProofSet]

\* res.status(http).json({status, ...}) sent by the handler of op for txid t
Response(op, t, http, status) ==
    [NoResp EXCEPT !.op = op, !.txid = t, !.http = http, !.status = status,
                   !.via = "handler"]

\* The API key middleware: does the request reach its route handler?
Authorized(k) == k = API_KEY

\* A request arrives and passes the middleware; its handler runs when no
\* reaction of a settled promise is waiting to run
Arrives(k) ==
    /\ MicrotasksDrained
    /\ Authorized(k)

\* A response that reports a completed proof for its txid
Completes(r) ==
    \/ r.op = "requestProof" /\ r.http = 200
    \/ r.op \in {"startJob", "statusByTxid", "pollJob"} /\ r.status = "completed"

Observe(r) ==
    IF Completes(r) /\ seen[r.txid] = NoResult
    THEN [seen EXCEPT ![r.txid] = r.result]
    ELSE seen

\* the server after construction: empty maps, nothing sent
Idle ==
    /\ kennyProofCache = [t \in TxIds |-> NoResult]
    /\ ongoingKennyRequests = [t \in TxIds |-> NoPromise]
    /\ kennyRequestTracker = [k \in {RateLimitKey(a) : a \in ApiKeys} |-> NoUsage]
    /\ kennyJobs = [j \in JobIds |-> NoJob]
    /\ promises = [p \in Pids |-> UnusedPromise]
    /\ waiters = [p \in Pids |-> 0]
    /\ now = 1
    /\ resp = NoResp
    /\ seen = [t \in TxIds |-> NoResult]
    /\ cleared = FALSE

Init ==
    /\ Idle
    /\ args = NoArgs
    /\ ret = NoRet

\* ------------------------------------------------------------ rate limiter
\* mutant: the request is rejected when the count is above the limit
RateLimitedAbove(usage, n) ==
    /\ usage # NoUsage
    /\ n < usage.resetTime
    /\ usage.count > KENNY_RATE_LIMIT

\* STEP 1 of GET /api/proof-kenny/:txid: is the request rejected (429)?
RateLimited(usage, n) ==
    /\ usage # NoUsage
    /\ n < usage.resetTime
    /\ usage.count >= KENNY_RATE_LIMIT

\* STEP 1 of GET /api/proof-kenny/:txid: the usage record after a request passes
Count(usage, n) ==
    IF usage # NoUsage /\ n < usage.resetTime
    THEN [usage EXCEPT !.count = @ + 1]
    ELSE [count |-> 1, resetTime |-> n + KENNY_RATE_WINDOW]

\* mutant: Math.floor instead of Math.ceil
RetryAfterFloor(usage, n) == (usage.resetTime - n) \div 1000

RetryAfter(usage, n) == Ceil(usage.resetTime - n, 1000)

\* ---------------------------------------------------------------- promises
\* processKennyRequest(txid) is called: a fresh pending promise
Free == {p \in Pids : promises[p].st = "unused"}

NewPromise == CHOOSE p \in Free : \A q \in Free : p <= q

Pending(t, starter, jobId) ==
    [txid |-> t, st |-> "pending", val |-> NoResult,
     starter |-> starter, jobId |-> jobId]

\* The promise once processKennyRequest returned o or threw o
Settled(pr, o) ==
    [pr EXCEPT !.st = IF o \in Results THEN "fulfilled" ELSE "rejected", !.val = o]

\* A settled promise that no caller awaits any more is garbage
Collect(p, pr) ==
    IF pr.st \in {"fulfilled", "rejected"} /\ waiters[p] = 0
    THEN UnusedPromise
    ELSE pr

\* mutant: the handler sends whatever the promise holds with res.json
AwaitedNoCatch(pr) ==
    [Response("requestProof", pr.txid, 200, "ok")
        EXCEPT !.result = pr.val, !.via = "await"]

\* What `await` of the settled promise pr gives the GET handler to send:
\* res.json(result), or the 500 of its catch block
Awaited(pr) ==
    IF pr.st = "fulfilled"
    THEN [Response("requestProof", pr.txid, 200, "ok")
            EXCEPT !.result = pr.val, !.via = "await"]
    ELSE [Response("requestProof", pr.txid, 500, "error")
            EXCEPT !.error = pr.val, !.via = "await"]

\* console.log / console.error of the job's .then / .catch reaction
JobLog(pr, o) ==
    [NoResp EXCEPT !.op = "kennyJob", !.txid = pr.txid, !.jobId = pr.jobId,
                   !.status = IF o \in Results THEN "completed" ELSE "failed",
                   !.via = "log"]

\* mutant: the promise is not put in the in-flight table
TrackNothing(t, p) == ongoingKennyRequests

\* ongoingKennyRequests.set(txid, kennyPromise)
Track(t, p) == [ongoingKennyRequests EXCEPT ![t] = p]

\* mutant: no finally, the in-flight entry stays
UntrackNever(t) == ongoingKennyRequests

\* ongoingKennyRequests.delete(txid), in finally
Untrack(t) == [ongoingKennyRequests EXCEPT ![t] = NoPromise]

\* mutant: the result is not cached
CacheNever(t, o) == kennyProofCache

\* kennyProofCache after the execution for txid t settled with outcome o
CacheOnSettle(t, o) ==
    IF o \in Results
    THEN [kennyProofCache EXCEPT ![t] = o]
    ELSE kennyProofCache

\* mutant: the reactions leave the job record as it is
JobOnSettleKeep(jobId, o) == kennyJobs

\* mutant: the .catch reaction records the job as completed, without result
JobOnSettleCompleted(jobId, o) ==
    [kennyJobs EXCEPT ![jobId] =
        [status |-> "completed", result |-> IF o \in Results THEN o ELSE NoResult,
         error |-> NoError, startTime |-> now]]

\* mutant: the chain of startJob has no .catch reaction
JobOnSettleNoCatch(jobId, o) ==
    IF o \in Results
    THEN [kennyJobs EXCEPT ![jobId] =
            [status |-> "completed", result |-> o, error |-> NoError, startTime |-> now]]
    ELSE kennyJobs

\* the .then / .catch reactions of startJob on the job table
JobOnSettle(jobId, o) ==
    LET startTime == IF kennyJobs[jobId] # NoJob /\ kennyJobs[jobId].startTime # 0
                     THEN kennyJobs[jobId].startTime
                     ELSE now
    IN IF o \in Results
       THEN [kennyJobs EXCEPT ![jobId] =
                [status |-> "completed", result |-> o, error |-> NoError,
                 startTime |-> startTime]]
       ELSE [kennyJobs EXCEPT ![jobId] =
                [status |-> "failed", result |-> NoResult, error |-> o,
                 startTime |-> startTime]]

\* ------------------------------------------------------------------ actions
\* GET /api/proof-kenny/:txid (requestProof), up to its first await
RequestProof(k, t) ==
    /\ UNCHANGED lib
    /\ Arrives(k)
    /\ UNCHANGED <<kennyJobs, now, cleared>>
    /\ LET currentUsage == kennyRequestTracker[RateLimitKey(k)] IN
            IF RateLimited(currentUsage, now)
            THEN /\ resp' = [Response("requestProof", t, 429, "rate_limited")
                               EXCEPT !.retryAfter = RetryAfter(currentUsage, now)]
                 /\ UNCHANGED <<kennyProofCache, ongoingKennyRequests,
                                kennyRequestTracker, promises, waiters, seen>>
            ELSE /\ kennyRequestTracker' =
                        [kennyRequestTracker EXCEPT ![RateLimitKey(k)] = Count(currentUsage, now)]
                 /\ IF kennyProofCache[t] # NoResult
                    THEN \* STEP 2: cached
                         /\ resp' = [Response("requestProof", t, 200, "ok")
                                       EXCEPT !.result = kennyProofCache[t]]
                         /\ seen' = Observe(resp')
                         /\ UNCHANGED <<kennyProofCache, ongoingKennyRequests,
                                        promises, waiters>>
                    ELSE IF ongoingKennyRequests[t] # NoPromise
                    THEN \* STEP 3: await the promise already in the table
                         /\ Awaiting(MaxComps) < MaxWaiters
                         /\ waiters' = [waiters EXCEPT ![ongoingKennyRequests[t]] = @ + 1]
                         /\ resp' = NoResp
                         /\ UNCHANGED <<kennyProofCache, ongoingKennyRequests,
                                        promises, seen>>
                    ELSE \* STEP 4: start processKennyRequest and await it
                         /\ Free # {}
                         /\ promises' = [promises EXCEPT ![NewPromise] =
                                            Pending(t, "sync", NoJobId)]
                         /\ ongoingKennyRequests' = Track(t, NewPromise)
                         /\ resp' = NoResp
                         /\ UNCHANGED <<kennyProofCache, waiters, seen>>

\* POST /api/proof-kenny-start/:txid (startJob)
StartJob(k, t) ==
    /\ UNCHANGED lib
    /\ Arrives(k)
    /\ UNCHANGED <<kennyProofCache, kennyRequestTracker, waiters, now, cleared>>
    /\ LET jobId == KennyJobId(t, now) IN
            /\ IF kennyProofCache[t] # NoResult
               THEN /\ resp' = [Response("startJob", t, 200, "completed")
                                  EXCEPT !.jobId = jobId, !.result = kennyProofCache[t]]
                    /\ seen' = Observe(resp')
                    /\ UNCHANGED <<ongoingKennyRequests, kennyJobs, promises>>
               ELSE IF ongoingKennyRequests[t] # NoPromise
               THEN /\ resp' = [Response("startJob", t, 200, "processing")
                                  EXCEPT !.jobId = ExistingJobId(t)]
                    /\ UNCHANGED <<ongoingKennyRequests, kennyJobs, promises, seen>>
               ELSE /\ Free # {}
                    /\ kennyJobs' = [kennyJobs EXCEPT ![jobId] =
                            [status |-> "processing", result |-> NoResult,
                             error |-> NoError, startTime |-> now]]
                    /\ promises' = [promises EXCEPT ![NewPromise] =
                                       Pending(t, "async", jobId)]
                    /\ ongoingKennyRequests' = Track(t, NewPromise)
                    /\ resp' = [Response("startJob", t, 200, "processing")
                                  EXCEPT !.jobId = jobId]
                    /\ UNCHANGED seen

\* processKennyRequest settles with outcome o, and the reactions of the
\* request that started it run: the rest of the GET handler (cache, respond,
\* finally) or the .then/.catch/.finally chain of startJob
Settle(p, o) ==
    /\ UNCHANGED lib
    /\ MicrotasksDrained
    /\ promises[p].st = "pending"
    /\ LET t == promises[p].txid IN
       /\ promises' = [promises EXCEPT ![p] = Collect(p, Settled(promises[p], o))]
       /\ kennyProofCache' = CacheOnSettle(t, o)
       /\ ongoingKennyRequests' = Untrack(t)
       /\ IF promises[p].starter = "sync"
          THEN /\ resp' = [Awaited(Settled(promises[p], o)) EXCEPT !.via = "starter"]
               /\ seen' = Observe(resp')
               /\ UNCHANGED kennyJobs
          ELSE /\ kennyJobs' = JobOnSettle(promises[p].jobId, o)
               /\ resp' = JobLog(promises[p], o)
               /\ UNCHANGED seen
    /\ UNCHANGED <<kennyRequestTracker, waiters, now, cleared>>

\* A requestProof caller that awaited the promise in STEP 3 resumes
Resume(p) ==
    /\ UNCHANGED lib
    /\ waiters[p] > 0
    /\ promises[p].st \in {"fulfilled", "rejected"}
    /\ waiters' = [waiters EXCEPT ![p] = @ - 1]
    /\ promises' = [promises EXCEPT ![p] = IF waiters[p] = 1 THEN UnusedPromise ELSE @]
    /\ resp' = Awaited(promises[p])
    /\ seen' = Observe(resp')
    /\ UNCHANGED <<kennyProofCache, ongoingKennyRequests, kennyRequestTracker,
                   kennyJobs, now, cleared>>

\* GET /api/proof-kenny-status/:jobId (pollJob)
PollJob(k, j) ==
    /\ UNCHANGED lib
    /\ Arrives(k)
    /\ LET job == kennyJobs[j] IN
            IF job = NoJob
            THEN resp' = [Response("pollJob", j[2], 404, "job_not_found")
                            EXCEPT !.jobId = j]
            ELSE resp' = [Response("pollJob", j[2], 200, job.status)
                            EXCEPT !.jobId = j, !.result = job.result,
                                   !.error = job.error,
                                   !.runtime = Round(now - job.startTime, 1000)]
    /\ seen' = Observe(resp')
    /\ UNCHANGED <<orchestrator, now, cleared>>

\* mutant: a txid whose job failed is answered with failed
StatusByTxidFailed(k, t) ==
    /\ UNCHANGED lib
    /\ Arrives(k)
    /\ IF kennyProofCache[t] # NoResult
       THEN resp' = [Response("statusByTxid", t, 200, "completed")
                       EXCEPT !.result = kennyProofCache[t]]
       ELSE IF ongoingKennyRequests[t] # NoPromise
       THEN resp' = Response("statusByTxid", t, 200, "processing")
       ELSE IF \E j \in JobIds : j[2] = t /\ kennyJobs[j].status = "failed"
       THEN resp' = Response("statusByTxid", t, 200, "failed")
       ELSE resp' = Response("statusByTxid", t, 200, "not_found")
    /\ seen' = Observe(resp')
    /\ UNCHANGED <<orchestrator, now, cleared>>

\* GET /api/proof-kenny-status-by-txid/:txid
StatusByTxid(k, t) ==
    /\ UNCHANGED lib
    /\ Arrives(k)
    /\ IF kennyProofCache[t] # NoResult
       THEN resp' = [Response("statusByTxid", t, 200, "completed")
                       EXCEPT !.result = kennyProofCache[t]]
       ELSE IF ongoingKennyRequests[t] # NoPromise
       THEN resp' = Response("statusByTxid", t, 200, "processing")
       ELSE resp' = Response("statusByTxid", t, 200, "not_found")
    /\ seen' = Observe(resp')
    /\ UNCHANGED <<orchestrator, now, cleared>>

\* mutant: the single-key clear empties the whole in-flight table
ClearOneAllInFlight(k, t) ==
    /\ UNCHANGED lib
    /\ Arrives(k)
    /\ kennyProofCache' = [kennyProofCache EXCEPT ![t] = NoResult]
    /\ ongoingKennyRequests' = [u \in TxIds |-> NoPromise]
    /\ resp' = Response("clearOne", t, 200, "cleared")
    /\ cleared' = TRUE
    /\ UNCHANGED <<kennyRequestTracker, kennyJobs, promises, waiters, now, seen>>

\* DELETE /api/proof-kenny-cache/:txid
ClearOne(k, t) ==
    /\ UNCHANGED lib
    /\ Arrives(k)
    /\ kennyProofCache' = [kennyProofCache EXCEPT ![t] = NoResult]
    /\ ongoingKennyRequests' = [ongoingKennyRequests EXCEPT ![t] = NoPromise]
    /\ resp' = Response("clearOne", t, 200, "cleared")
    /\ cleared' = TRUE
    /\ UNCHANGED <<kennyRequestTracker, kennyJobs, promises, waiters, now, seen>>

\* DELETE /api/proof-kenny-cache-all
ClearAll(k) ==
    /\ UNCHANGED lib
    /\ Arrives(k)
    /\ kennyProofCache' = [t \in TxIds |-> NoResult]
    /\ ongoingKennyRequests' = [t \in TxIds |-> NoPromise]
    /\ kennyJobs' = [j \in JobIds |-> NoJob]
    /\ resp' = Response("clearAll", "none", 200, "cleared")
    /\ cleared' = TRUE
    /\ UNCHANGED <<kennyRequestTracker, promises, waiters, now, seen>>

\* The middleware answers 401 and no route handler runs
Reject(k) ==
    /\ UNCHANGED lib
    /\ MicrotasksDrained
    /\ ~Authorized(k)
    /\ resp' = Response("middleware", "none", 401, "unauthorized")
    /\ UNCHANGED <<orchestrator, now, seen, cleared>>

\* ------------------------------------------------------------ Merkle engine
\* A hex string that holds a hash is the sequence of its bytes, every byte one
\* token.  sha256(sha256(bytes)) is taken to be free of collisions: the digest
\* of a byte string is that string between two tokens no leaf contains.
Sha256d(bytes) == <<"[">> \o bytes \o <<"]">>

\* hex.encode(hex.decode(h).reverse())
Reverse(h) == [i \in 1..Len(h) |-> h[Len(h) + 1 - i]]

HashPair(a, b) == Sha256d(a \o b)

\* mutant: an odd level is padded with an empty hash
EnsureEvenPad(hashes) ==
    IF Len(hashes) % 2 # 0 THEN Append(hashes, <<>>) ELSE hashes

\* ensureEven: the array after the call (it is changed in place)
EnsureEven(hashes) ==
    IF Len(hashes) % 2 # 0 THEN Append(hashes, hashes[Len(hashes)]) ELSE hashes

\* the loop that hashes the pairs of one level
CombinedHashes(hashes) ==
    [i \in 1..(Len(hashes) \div 2) |-> HashPair(hashes[2 * i - 1], hashes[2 * i])]

\* reverseAndEven
ReverseAndEven(txs) == EnsureEven([i \in 1..Len(txs) |-> Reverse(txs[i])])

RECURSIVE GenerateMerkleRoot(_)
\* generateMerkleRoot: "" for an empty list
GenerateMerkleRoot(hashes) ==
    IF Len(hashes) = 0
    THEN <<>>
    ELSE LET combinedHashes == CombinedHashes(EnsureEven(hashes))
         IN IF Len(combinedHashes) = 1
            THEN combinedHashes[1]
            ELSE GenerateMerkleRoot(combinedHashes)

RECURSIVE Generate(_)
\* generate, the inner function of generateMerkleTree: the levels from hashes
\* up to the root, every level but the root made even in place
Generate(hashes) ==
    IF Len(hashes) = 1
    THEN <<hashes>>
    ELSE <<EnsureEven(hashes)>> \o Generate(CombinedHashes(EnsureEven(hashes)))

\* generateMerkleTree; tree[0] is the caller's array
GenerateMerkleTree(hashes) ==
    IF Len(hashes) = 0 THEN <<>> ELSE Generate(hashes)

\* tree[0].findIndex((h) => h === hash)
IndexOfHash(hashes, hash) ==
    IF \E i \in 1..Len(hashes) : hashes[i] = hash
    THEN (CHOOSE i \in 1..Len(hashes) :
              /\ hashes[i] = hash
              /\ \A j \in 1..(i - 1) : hashes[j] # hash) - 1
    ELSE -1

RECURSIVE ProofFromShort(_, _, _, _)
\* mutant: the last node of a level is taken to have no sibling
ProofFromShort(tree, level, hashIndex, treeDepth) ==
    IF level >= treeDepth
    THEN <<>>
    ELSE LET isLeftChild == hashIndex >= 0 /\ hashIndex % 2 = 0
             siblingIndex == IF isLeftChild THEN hashIndex + 1 ELSE hashIndex - 1
             sibling == IF siblingIndex >= 0
                        THEN <<tree[level + 1][siblingIndex + 1]>>
                        ELSE <<Undefined>>
         IN (IF siblingIndex < Len(tree[level + 1]) - 1 THEN sibling ELSE <<>>)
            \o ProofFromShort(tree, level + 1, hashIndex \div 2, treeDepth)

RECURSIVE ProofFrom(_, _, _, _)
\* the loop of generateMerkleProof from `level` on.  hashIndex is -1 when the
\* hash is not a leaf: -1 % 2 is -1 in JavaScript, tree[level][-2] is
\* undefined, Math.floor(-1 / 2) is -1
ProofFrom(tree, level, hashIndex, treeDepth) ==
    IF level >= treeDepth
    THEN <<>>
    ELSE LET isLeftChild == hashIndex >= 0 /\ hashIndex % 2 = 0
             siblingIndex == IF isLeftChild THEN hashIndex + 1 ELSE hashIndex - 1
             sibling == IF siblingIndex >= 0
                        THEN <<tree[level + 1][siblingIndex + 1]>>
                        ELSE <<Undefined>>
         IN (IF siblingIndex < Len(tree[level + 1]) THEN sibling ELSE <<>>)
            \o ProofFrom(tree, level + 1, hashIndex \div 2, treeDepth)

\* mutant: treeDepth counts the levels of the tree, the root's included
GenerateMerkleProofLevels(hash, hashes) ==
    LET tree == GenerateMerkleTree(hashes)
    IN [ok |-> TRUE, err |-> NoError,
        merkleProof |-> ProofFrom(tree, 0, IndexOfHash(tree[1], hash), Len(tree) - 1),
        treeDepth |-> Len(tree)]

\* generateMerkleProof for a non-empty list: {merkleProof, treeDepth}, or the
\* error it throws
GenerateMerkleProof(hash, hashes) ==
    LET tree == GenerateMerkleTree(hashes)
        treeDepth == Len(tree) - 1
        merkleProof == ProofFrom(tree, 0, IndexOfHash(tree[1], hash), treeDepth)
    IN IF Len(merkleProof) # treeDepth
       THEN [ok |-> FALSE, err |-> "Proof length mismatch",
             merkleProof |-> <<>>, treeDepth |-> treeDepth]
       ELSE [ok |-> TRUE, err |-> NoError,
             merkleProof |-> merkleProof, treeDepth |-> treeDepth]

\* 2^i
RECURSIVE Pow2(_)
Pow2(i) == IF i = 0 THEN 1 ELSE 2 * Pow2(i - 1)

RECURSIVE HashUp(_, _, _, _)
\* the loop of verifyMerkleProofHex from step i on
HashUp(currentHash, proofHexArray, txIndex, i) ==
    IF i >= Len(proofHexArray)
    THEN currentHash
    ELSE LET proofHash == proofHexArray[i + 1]
             isRightNode == (txIndex \div Pow2(i)) % 2 = 1
             combined == IF isRightNode
                         THEN proofHash \o currentHash
                         ELSE currentHash \o proofHash
         IN HashUp(Sha256d(combined), proofHexArray, txIndex, i + 1)

\* verifyMerkleProofHex
VerifyMerkleProofHex(txHashHex, proofHexArray, merkleRootHex, txIndex) ==
    HashUp(txHashHex, proofHexArray, txIndex, 0) = merkleRootHex

\* --------------------------------------------------- witness commitment
\* String.prototype.toLowerCase on the characters of a hex string
ToLowerCase(str) ==
    [i \in 1..Len(str) |->
        CASE str[i] = "A" -> "a"
          [] str[i] = "D" -> "d"
          [] str[i] = "E" -> "e"
          [] OTHER -> str[i]]

\* str.substring(from, to) for 0 <= from <= to
Substring(str, from, to) ==
    SubSeq(str, from + 1, IF to < Len(str) THEN to ELSE Len(str))

\* str.indexOf(pattern)
IndexOf(str, pattern) ==
    LET at == {i \in 0..(Len(str) - Len(pattern)) :
                    Substring(str, i, i + Len(pattern)) = pattern}
    IN IF at = {} THEN -1 ELSE CHOOSE i \in at : \A j \in at : i <= j

\* null
Null == <<"null">>

\* the offsets at which /aa21a9ed([0-9a-fA-F]{64})/i matches
CommitmentMatches(str) ==
    {i \in 0..(Len(str) - 72) : ToLowerCase(Substring(str, i, i + 8)) = Tag}

\* extractWitnessCommitment: the group of the leftmost match, in lower
\* case, unless it is all zeros
ExtractWitnessCommitment(coinbaseTxHex) ==
    LET at == CommitmentMatches(coinbaseTxHex)
        first == CHOOSE i \in at : \A j \in at : i <= j
        witnessCommitment == ToLowerCase(Substring(coinbaseTxHex, first + 8, first + 72))
    IN IF at # {} /\ witnessCommitment # Zero32
       THEN witnessCommitment
       ELSE Null

\* getCommitmentHashFromRawCtx(ctx).witnessMerkleRoot
GetCommitmentHashFromRawCtx(ctx) ==
    Substring(ctx, IndexOf(ctx, Marker) + 12, IndexOf(ctx, Marker) + 12 + 64)

\* mutant: the reserved value is taken to be 32 zero bytes
VerifyWitnessCommitmentZero(witnessMerkleRoot, witnessReservedValue, expectedCommitment) ==
    Sha256d(witnessMerkleRoot \o <<"0", "0">>) = expectedCommitment

\* calculateWitnessCommitment
CalculateWitnessCommitment(witnessMerkleRoot, witnessReservedValue) ==
    Sha256d(witnessMerkleRoot \o witnessReservedValue)

\* verifyWitnessCommitment
VerifyWitnessCommitment(witnessMerkleRoot, witnessReservedValue, expectedCommitment) ==
    Sha256d(witnessMerkleRoot \o witnessReservedValue) = expectedCommitment

\* ---------------------------------------------------- transaction parser
\* NaN, the value of parseInt on an empty string, and arithmetic over it
NaN == -1
Plus(a, b) == IF a = NaN \/ b = NaN THEN NaN ELSE a + b

HexDigits ==
    <<"0", "1", "2", "3", "4", "5", "6", "7", "8", "9", "a", "b", "c", "d", "e", "f">>

HexVal(c) == (CHOOSE i \in 1..16 : HexDigits[i] = c) - 1

\* parseInt(str, 16) of at most two hex digits
ParseInt(str) ==
    CASE Len(str) = 0 -> NaN
      [] Len(str) = 1 -> HexVal(str[1])
      [] OTHER -> 16 * HexVal(str[1]) + HexVal(str[2])

\* str.slice(start, end) for indices that are not negative: NaN counts as
\* 0 and an index past the end as the length
Slice(str, start, end) ==
    LET clamp(i) == IF i = NaN THEN 0 ELSE IF i > Len(str) THEN Len(str) ELSE i
    IN SubSeq(str, clamp(start) + 1, clamp(end))

\* str.slice(-n)
SliceLast(str, n) == SubSeq(str, IF Len(str) > n THEN Len(str) - n + 1 ELSE 1, Len(str))

\* mutant: the bytes of every field are put in the opposite order
OxReversed(str) ==
    <<"0", "x">> \o [i \in 1..Len(str) |->
                       IF Len(str) % 2 = 1 THEN str[i]
                       ELSE str[2 * ((Len(str) \div 2) - 1 - ((i - 1) \div 2))
                                + ((i - 1) % 2) + 1]]

\* `0x${str}`
Ox(str) == <<"0", "x">> \o str

\* the input loop of parseKennyTransactionDataSimple from iteration i on
RECURSIVE ParseInputs(_, _, _, _)
ParseInputs(cleanHex, offset, i, inputCount) ==
    IF inputCount = NaN \/ i >= inputCount
    THEN [items |-> <<>>, offset |-> offset]
    ELSE IF offset = NaN \/ offset >= Len(cleanHex)
    THEN \* every slice from here on is empty and the offset becomes NaN
         [items |-> [k \in 1..(inputCount - i) |->
                        [outpoint |-> [hash |-> Ox(<<>>), index |-> Ox(<<>>)],
                         scriptSig |-> Ox(<<>>),
                         sequence |-> Ox(<<>>)]],
          offset |-> NaN]
    ELSE LET prevHash == Slice(cleanHex, offset, Plus(offset, 64))
             o1 == Plus(offset, 64)
             prevIndex == Slice(cleanHex, o1, Plus(o1, 8))
             o2 == Plus(o1, 8)
             scriptLen == ParseInt(Slice(cleanHex, o2, Plus(o2, 2)))
             o3 == Plus(o2, 2)
             script == Slice(cleanHex, o3, Plus(o3, Plus(scriptLen, scriptLen)))
             o4 == Plus(o3, Plus(scriptLen, scriptLen))
             sequence == Slice(cleanHex, o4, Plus(o4, 8))
             rest == ParseInputs(cleanHex, Plus(o4, 8), i + 1, inputCount)
         IN [items |-> <<[outpoint |-> [hash |-> Ox(prevHash), index |-> Ox(prevIndex)],
                          scriptSig |-> Ox(script),
                          sequence |-> Ox(sequence)]>> \o rest.items,
             offset |-> rest.offset]

\* the output loop of parseKennyTransactionDataSimple from iteration i on
RECURSIVE ParseOutputs(_, _, _, _)
ParseOutputs(cleanHex, offset, i, outputCount) ==
    IF outputCount = NaN \/ i >= outputCount
    THEN [items |-> <<>>, offset |-> offset]
    ELSE IF offset = NaN \/ offset >= Len(cleanHex)
    THEN \* every slice from here on is empty and the offset becomes NaN
         [items |-> [k \in 1..(outputCount - i) |->
                        [value |-> Ox(<<>>), scriptPubKey |-> Ox(<<>>)]],
          offset |-> NaN]
    ELSE LET value == Slice(cleanHex, offset, Plus(offset, 16))
             o1 == Plus(offset, 16)
             scriptLen == ParseInt(Slice(cleanHex, o1, Plus(o1, 2)))
             o2 == Plus(o1, 2)
             script == Slice(cleanHex, o2, Plus(o2, Plus(scriptLen, scriptLen)))
             rest == ParseOutputs(cleanHex, Plus(o2, Plus(scriptLen, scriptLen)), i + 1, outputCount)
         IN [items |-> <<[value |-> Ox(value), scriptPubKey |-> Ox(script)]>> \o rest.items,
             offset |-> rest.offset]

\* parseKennyTransactionDataSimple: no path of it throws
ParseKennyTransactionDataSimple(combinedTxHex) ==
    LET cleanHex == IF Len(combinedTxHex) >= 2 /\ SubSeq(combinedTxHex, 1, 2) = <<"0", "x">>
                    THEN SubSeq(combinedTxHex, 3, Len(combinedTxHex))
                    ELSE combinedTxHex
        version == Slice(cleanHex, 0, 8)
        isSegwit == Slice(cleanHex, 8, 10) = <<"0", "0">> /\ Slice(cleanHex, 10, 12) = <<"0", "1">>
        o1 == IF isSegwit THEN 12 ELSE 8
        inputCount == ParseInt(Slice(cleanHex, o1, o1 + 2))
        inputs == ParseInputs(cleanHex, o1 + 2, 0, inputCount)
        o2 == inputs.offset
        outputCount == ParseInt(Slice(cleanHex, o2, Plus(o2, 2)))
        outputs == ParseOutputs(cleanHex, Plus(o2, 2), 0, outputCount)
        offset == outputs.offset
    IN [error |-> NoError,
        wtx |-> [version |-> Ox(version),
                 ins |-> inputs.items,
                 outs |-> outputs.items,
                 locktime |-> Ox(SliceLast(cleanHex, 8))],
        witnessData |-> IF isSegwit /\ offset # NaN /\ offset < Len(cleanHex) - 8
                        THEN Ox(Slice(cleanHex, offset, Len(cleanHex) - 8))
                        ELSE Ox(<<>>)]

\* ------------------------------------------------------- proof arrays
\* splitIntoChunksSimple: the whole 64-character chunks of the string, a
\* shorter last one being left out
SplitIntoChunksSimple(hexString) ==
    IF hexString = <<"undefined">> \/ Len(hexString) = 0
    THEN <<>>
    ELSE LET cleanHex == IF Len(hexString) >= 2 /\ SubSeq(hexString, 1, 2) = <<"0", "x">>
                         THEN SubSeq(hexString, 3, Len(hexString))
                         ELSE hexString
         IN [k \in 1..(Len(cleanHex) \div 64) |-> Slice(cleanHex, 64 * (k - 1), 64 * k)]

\* a value JavaScript takes for false in a condition or on the left of ||
Falsy(v) == v \in {Null, Undefined, <<>>}

\* mutant: the reported reserved value is preferred to the commitment
WitnessRootReservedFirst(proof) ==
    IF ~Falsy(proof.witnessReservedValue)
    THEN proof.witnessReservedValue
    ELSE LET witnessCommitment == ExtractWitnessCommitment(proof.coinbaseTransaction)
         IN IF ~Falsy(witnessCommitment) THEN witnessCommitment ELSE Zero32

\* ESSENTIAL FIX 1 of processKennyRequest: the witness root
WitnessRoot(proof) ==
    LET witnessCommitment == ExtractWitnessCommitment(proof.coinbaseTransaction)
    IN IF ~Falsy(witnessCommitment)
       THEN witnessCommitment
       ELSE IF ~Falsy(proof.witnessReservedValue)
            THEN proof.witnessReservedValue
            ELSE Zero32

\* processKennyRequest from the proof of the library on: the proof it
\* returns, whatever verifyKennyProofData finds
FormattedProof(proof) ==
    [error |-> NoError,
     treeDepth |-> proof.merkleProofDepth,
     computedWtxidRoot |-> WitnessRoot(proof),
     wproof |-> SplitIntoChunksSimple(proof.witnessMerkleProof),
     cproof |-> SplitIntoChunksSimple(proof.coinbaseMerkleProof)]

\* ------------------------------------------------- primary strategy
\* bitcoinRPC("getblock", [blockhash, 2]): the block, or null when the call
\* failed (bitcoinRPC catches the error and returns null)
NullBlock == [isNull |-> TRUE, hash |-> "", height |-> 0, tx |-> <<>>, merkleroot |-> <<>>]

GetBlock(blockhash, up) ==
    IF up /\ blockhash \in BlockHashes
    THEN [isNull |-> FALSE, hash |-> blockhash,
          height |-> Chain[blockhash].height, tx |-> Chain[blockhash].tx,
          merkleroot |-> Chain[blockhash].merkleroot]
    ELSE NullBlock

\* getProofData: throws (TypeError) when the raw block is null: blockHex.slice
GetProofData(txid, blockhash, upBlock, upHex) ==
    IF upHex /\ blockhash \in BlockHashes
    THEN [ok |-> TRUE, err |-> NoError, txid |-> txid,
          block |-> GetBlock(blockhash, upBlock)]
    ELSE [ok |-> FALSE, err |-> "TypeError", txid |-> txid, block |-> NullBlock]

\* data.block.tx.findIndex((o) => o.txid === data.txid)
FindIndex(txs, txid) ==
    IF \E i \in 1..Len(txs) : txs[i].txid = txid
    THEN (CHOOSE i \in 1..Len(txs) :
              /\ txs[i].txid = txid
              /\ \A j \in 1..(i - 1) : txs[j].txid # txid) - 1
    ELSE -1

\* mutant: the coinbase keeps the wtxid the node reports
GetTxDataEfficientlyNodeHash(txs) ==
    [i \in 1..Len(txs) |->
        [txid |-> txs[i].txid, wtxid |-> txs[i].hash,
         segwit |-> i # 1 /\ txs[i].txid # txs[i].hash]]

\* mutant: no transaction is flagged segwit
GetTxDataEfficientlyLegacy(txs) ==
    [i \in 1..Len(txs) |->
        [txid |-> txs[i].txid, wtxid |-> IF i = 1 THEN ZeroHash ELSE txs[i].hash,
         segwit |-> FALSE]]

\* getTxDataEfficiently: the {txid, wtxid, segwit} record of every transaction
GetTxDataEfficiently(txs) ==
    [i \in 1..Len(txs) |->
        IF i = 1
        THEN [txid |-> txs[i].txid, wtxid |-> ZeroHash, segwit |-> FALSE]
        ELSE [txid |-> txs[i].txid, wtxid |-> txs[i].hash,
              segwit |-> txs[i].txid # txs[i].hash]]

\* mutant: a transaction that is not in the block does not make it throw
GetProofGenerationDataLenient(data, parse) ==
    LET fail(e) == [ok |-> FALSE, err |-> e, txId |-> data.txid, txids |-> <<>>,
                   merkle_root |-> <<>>, height |-> 0,
                   witnessReservedValue |-> <<>>, witnessMerkleRoot |-> <<>>]
    IN IF data.block.isNull THEN fail("TypeError")
       ELSE IF parse # "ok" THEN fail(parse)
       ELSE [ok |-> TRUE, err |-> NoError, txId |-> data.txid,
             txids |-> GetTxDataEfficiently(data.block.tx),
             merkle_root |-> data.block.merkleroot,
             height |-> data.block.height,
             witnessReservedValue |-> Zero32,
             witnessMerkleRoot |-> GetCommitmentHashFromRawCtx(data.block.tx[1].hex)]

\* getProofGenerationData: throws when data.block is null, when the coinbase
\* does not parse (btc.Transaction.fromRaw), or when the transaction is not
\* in the block (data.block.tx[-1].hex)
GetProofGenerationData(data, parse) ==
    LET txIndex == FindIndex(data.block.tx, data.txid)
        fail(e) == [ok |-> FALSE, err |-> e, txId |-> data.txid, txids |-> <<>>,
                   merkle_root |-> <<>>, height |-> 0,
                   witnessReservedValue |-> <<>>, witnessMerkleRoot |-> <<>>]
    IN IF data.block.isNull THEN fail("TypeError")
       ELSE IF parse # "ok" THEN fail(parse)
       ELSE IF txIndex = -1 THEN fail("TypeError")
       ELSE [ok |-> TRUE, err |-> NoError, txId |-> data.txid,
             txids |-> GetTxDataEfficiently(data.block.tx),
             merkle_root |-> data.block.merkleroot,
             height |-> data.block.height,
             witnessReservedValue |-> Zero32,
             witnessMerkleRoot |-> GetCommitmentHashFromRawCtx(data.block.tx[1].hex)]

\* reverseAndEven(wtxids): the witness leaves of the block
ReversedWTxIds(pgd) ==
    ReverseAndEven([i \in 1..Len(pgd.txids) |-> HexDecode[pgd.txids[i].wtxid]])

\* reverseAndEven(txids): the txid leaves of the block
ReversedTxIds(pgd) ==
    ReverseAndEven([i \in 1..Len(pgd.txids) |-> HexDecode[pgd.txids[i].txid]])

\* mutant: the proof of the target is built over the txid leaves
ProofLeavesTxids(pgd, segwit) == ReversedTxIds(pgd)

\* if (segwit) ... else ...: the leaves the proof of the target is built over
ProofLeaves(pgd, segwit) ==
    IF segwit THEN ReversedWTxIds(pgd) ELSE ReversedTxIds(pgd)

\* extractProofInfo: every error thrown in its try block (target not found,
\* merkleRoot mismatch, proof length mismatch) is caught and logged, and the
\* transactionProofSet, still {}, is returned
ExtractProofInfo(pgd) ==
    LET txIndex == FindIndex(pgd.txids, pgd.txId)
        segwit == pgd.txids[txIndex + 1].segwit
        reversedTxIds == ReversedTxIds(pgd)
        reversedWTxIds == ReversedWTxIds(pgd)
        merkleRoot == GenerateMerkleRoot(reversedTxIds)
        merkleHeaderRootLE == Reverse(pgd.merkle_root)
        leaves == ProofLeaves(pgd, segwit)
        wtree == GenerateMerkleProof(IF segwit THEN reversedWTxIds[txIndex + 1]
                                               ELSE reversedTxIds[txIndex + 1], leaves)
        coinbaseProof == GenerateMerkleProof(reversedTxIds[1], reversedTxIds)
    IN IF txIndex = -1
       THEN EmptyProofSet
       ELSE IF merkleHeaderRootLE # merkleRoot
       THEN EmptyProofSet
       ELSE IF ~wtree.ok \/ ~coinbaseProof.ok
       THEN EmptyProofSet
       ELSE [txId |-> pgd.txId, txIndex |-> txIndex,
             segwit |-> segwit, height |-> pgd.height,
             merkleRoot |-> merkleRoot,
             treeDepth |-> wtree.treeDepth,
             wproof |-> wtree.merkleProof,
             cproof |-> coinbaseProof.merkleProof,
             computedWtxidRoot |-> IF segwit THEN GenerateMerkleRoot(reversedWTxIds)
                                             ELSE Undefined,
             witnessReservedValue |-> IF segwit THEN Zero32 ELSE Undefined,
             witnessMerkleRoot |-> IF segwit THEN pgd.witnessMerkleRoot ELSE Undefined]

\* GET /api/proof/:txid with query blockHash bh ("" when absent); txInfo is the
\* outcome of its getrawtransaction call, upBlock/upHex whether the getblock
\* calls of getProofData succeed, parse the outcome of parsing the coinbase
GetProof(k, t, bh, txInfo, upBlock, upHex, parse) ==
    /\ UNCHANGED lib
    /\ Arrives(k)
    /\ LET blockHash == IF bh # "" THEN bh
                        ELSE IF txInfo = "blockhash" THEN BlockOf(t) ELSE ""
           fail(status, e) ==
                [Response("proof", t, 500, status)
                    EXCEPT !.error = e, !.blockHash = blockHash]
           data == GetProofData(t, blockHash, upBlock, upHex)
           pgd == GetProofGenerationData(data, parse)
       IN resp' =
            IF bh = "" /\ txInfo = "error" THEN fail("rpc_error", "RPC Error")
            ELSE IF bh = "" /\ txInfo = "none"
                 THEN fail("tx_info", "Transaction not confirmed or not found")
            ELSE IF bh = "" /\ txInfo = "throw"
                 THEN fail("tx_info", "Failed to get transaction info")
            ELSE IF ~data.ok THEN fail("proof_data", data.err)
            ELSE IF ~pgd.ok THEN fail("proof_generation", pgd.err)
            ELSE [Response("proof", t, 200, "ok")
                    EXCEPT !.proof = ExtractProofInfo(pgd), !.blockHash = blockHash]
    /\ UNCHANGED <<orchestrator, now, seen, cleared>>

\* Date.now() advances
Tick ==
    /\ UNCHANGED lib
    /\ \E n \in Instants : n > now /\ now' = n
    /\ resp' = NoResp
    /\ UNCHANGED <<orchestrator, seen, cleared>>

\* --------------------------------------------- calls of the Merkle engine
\* what a call of the Merkle engine leaves in ret
MerkleRet(fn) ==
    [fn |-> fn, hashes |-> args.hashes, index |-> args.index, root |-> <<>>,
     merkleProof |-> <<>>, treeDepth |-> 0, err |-> NoError, valid |-> FALSE]

\* generateMerkleRoot(hashes)
CallGenerateMerkleRoot ==
    /\ ret' = [MerkleRet("generateMerkleRoot")
                 EXCEPT !.root = GenerateMerkleRoot(args.hashes)]
    /\ args' = [args EXCEPT !.hashes = EnsureEven(@)]
    /\ UNCHANGED server

\* generateMerkleProof(hashes[index], hashes)
CallGenerateMerkleProof ==
    /\ LET p == GenerateMerkleProof(args.hashes[args.index + 1], args.hashes) IN
        ret' = [MerkleRet("generateMerkleProof")
                  EXCEPT !.merkleProof = p.merkleProof, !.treeDepth = p.treeDepth,
                         !.err = p.err]
    /\ args' = [args EXCEPT !.hashes = GenerateMerkleTree(@)[1]]
    /\ UNCHANGED server

\* verifyMerkleProofHex(hashes[index],
\*     generateMerkleProof(hashes[index], hashes).merkleProof,
\*     generateMerkleRoot(hashes), index)
CallVerifyMerkleProofHex ==
    /\ LET hash == args.hashes[args.index + 1]
           p == GenerateMerkleProof(hash, args.hashes)
           root == GenerateMerkleRoot(GenerateMerkleTree(args.hashes)[1])
       IN ret' = [MerkleRet("verifyMerkleProofHex")
                    EXCEPT !.merkleProof = p.merkleProof, !.treeDepth = p.treeDepth,
                           !.err = p.err, !.root = root,
                           !.valid = /\ p.ok
                                     /\ VerifyMerkleProofHex(hash, p.merkleProof,
                                                             root, args.index)]
    /\ args' = [args EXCEPT !.hashes = EnsureEven(@)]
    /\ UNCHANGED server

InitMerkle ==
    /\ Idle
    /\ args \in {[hashes |-> L, index |-> i] : L \in LeafLists, i \in 0..(MaxLeaves - 1)}
    /\ args.index < Len(args.hashes)
    /\ ret = NoRet

NextMerkle ==
    \/ CallGenerateMerkleRoot
    \/ CallGenerateMerkleProof
    \/ CallVerifyMerkleProofHex

\* The Merkle engine on every list of distinct leaves
SpecMerkle == InitMerkle /\ [][NextMerkle]_vars

\* ------------------------------------- calls of the commitment resolver
\* extractWitnessCommitment(coinbase)
CallExtractWitnessCommitment ==
    /\ ret' = [fn |-> "extractWitnessCommitment",
               value |-> ExtractWitnessCommitment(args.coinbase)]
    /\ UNCHANGED <<args, server>>

\* getCommitmentHashFromRawCtx(coinbase)
CallGetCommitmentHashFromRawCtx ==
    /\ ret' = [fn |-> "getCommitmentHashFromRawCtx",
               value |-> GetCommitmentHashFromRawCtx(args.coinbase)]
    /\ UNCHANGED <<args, server>>

InitExtract ==
    /\ Idle
    /\ args \in {[coinbase |-> c] : c \in Coinbases}
    /\ ret = NoRet

NextExtract ==
    \/ CallExtractWitnessCommitment
    \/ CallGetCommitmentHashFromRawCtx

\* The extraction of the witness commitment from every coinbase
SpecExtract == InitExtract /\ [][NextExtract]_vars

\* calculateWitnessCommitment(root, reserved)
CallCalculateWitnessCommitment ==
    /\ ret' = [fn |-> "calculateWitnessCommitment",
               value |-> CalculateWitnessCommitment(args.root, args.reserved),
               valid |-> FALSE]
    /\ UNCHANGED <<args, server>>

\* verifyWitnessCommitment(root, reserved, expected), expected being the
\* commitment calculated from some root and reserved value
CallVerifyWitnessCommitment ==
    /\ ret' = [fn |-> "verifyWitnessCommitment",
               value |-> args.expected,
               valid |-> VerifyWitnessCommitment(args.root, args.reserved, args.expected)]
    /\ UNCHANGED <<args, server>>

\* the 32-byte values a witness root or a reserved value can be
Hashes == Leaves \cup {<<"0", "0">>}

InitCommitment ==
    /\ Idle
    /\ args \in {[root |-> a, reserved |-> b, expectedOf |-> <<c, d>>,
                  expected |-> CalculateWitnessCommitment(c, d)] :
                    a \in Hashes, b \in Hashes, c \in Hashes, d \in Hashes}
    /\ ret = NoRet

NextCommitment ==
    \/ CallCalculateWitnessCommitment
    \/ CallVerifyWitnessCommitment

\* The commitment law on every pair of root and reserved value
SpecCommitment == InitCommitment /\ [][NextCommitment]_vars

\* -------------------------------------------- calls of the transaction parser
\* parseKennyTransactionDataSimple(tx)
CallParseKennyTransactionDataSimple ==
    /\ ret' = [fn |-> "parseKennyTransactionDataSimple",
               value |-> ParseKennyTransactionDataSimple(args.tx)]
    /\ UNCHANGED <<args, server>>

InitParse ==
    /\ Idle
    /\ args \in {[tx |-> t] : t \in RawTxs}
    /\ ret = NoRet

NextParse == CallParseKennyTransactionDataSimple

\* The decoding of every whole and every truncated transaction
SpecParse == InitParse /\ [][NextParse]_vars

\* ------------------------------------- well-formed transactions of the node
\* one byte in hex
Byte(n) == <<HexDigits[(n \div 16) + 1], HexDigits[(n % 16) + 1]>>

\* Bitcoin's compact size of a length below 65536
CompactSize(n) ==
    IF n < 253 THEN Byte(n) ELSE <<"f", "d">> \o Byte(n % 256) \o Byte(n \div 256)

\* a script of n bytes behind its length
LengthPrefixed(n) == CompactSize(n) \o Rep(<<"5", "1">>, n)

WfVersion == <<"0", "2", "0", "0", "0", "0", "0", "0">>
WfIndex == <<"0", "1", "0", "0", "0", "0", "0", "0">>
WfSequence == <<"f", "d", "f", "f", "f", "f", "f", "f">>
WfValue == <<"e", "8", "0", "3">> \o Rep(<<"0">>, 12)
WfStack == <<"0", "1", "0", "2", "a", "b", "c", "d">>

WfInput(scriptLen) == Hash32 \o WfIndex \o LengthPrefixed(scriptLen) \o WfSequence
WfOutput(scriptLen) == WfValue \o LengthPrefixed(scriptLen)

\* the serialization up to the end of the last output
WfBody(segwit, ins, outs) ==
    WfVersion \o (IF segwit THEN <<"0", "0", "0", "1">> ELSE <<>>)
        \o CompactSize(Len(ins)) \o Flatten([i \in 1..Len(ins) |-> WfInput(ins[i])])
        \o CompactSize(Len(outs)) \o Flatten([i \in 1..Len(outs) |-> WfOutput(outs[i])])

\* the witness section: one stack per input
WfWitness(segwit, ins) ==
    IF segwit THEN Flatten([i \in 1..Len(ins) |-> WfStack]) ELSE <<>>

ScriptLens == {0, 1, LongScript}

\* the lists of at most n script lengths, one at least
ScriptLenLists(n) == UNION {[1..k -> ScriptLens] : k \in 1..n}

\* proof.transaction of a transaction of the chain, with what it was
\* serialized from
WellFormedTxs ==
    {[tx |-> pre \o WfBody(sw, ins, outs) \o WfWitness(sw, ins) \o TxLocktime,
      segwit |-> sw, ins |-> ins, outs |-> outs,
      body |-> WfBody(sw, ins, outs),
      witness |-> WfWitness(sw, ins), locktime |-> TxLocktime] :
        pre \in {<<>>, <<"0", "x">>}, sw \in BOOLEAN,
        ins \in ScriptLenLists(MaxIns), outs \in ScriptLenLists(MaxOuts)}

InitDecode ==
    /\ Idle
    /\ args \in WellFormedTxs
    /\ ret = NoRet

NextDecode == CallParseKennyTransactionDataSimple

\* The decoding of every well-formed transaction
SpecDecode == InitDecode /\ [][NextDecode]_vars

\* ------------------------------------------------ calls of the formatter
\* splitIntoChunksSimple(proof.witnessMerkleProof)
CallSplitIntoChunksSimple ==
    /\ ret' = [fn |-> "splitIntoChunksSimple",
               value |-> SplitIntoChunksSimple(args.proof.witnessMerkleProof)]
    /\ UNCHANGED <<args, server>>

\* verifyKennyProofData: its three checks catch every error and answer false
VerifyKennyProofData(indexValid, proofValid, witnessValid) ==
    indexValid /\ proofValid /\ witnessValid

\* mutant: a proof that does not verify makes processKennyRequest throw
ReturnedIfValid(formattedProof, isValid) ==
    IF isValid THEN formattedProof
    ELSE [formattedProof EXCEPT !.error = "Proof verification failed"]

\* the end of processKennyRequest: isValid is logged, formattedProof returned
Returned(formattedProof, isValid) == formattedProof

\* processKennyRequest once bitcoinTxProof has answered args.proof; the
\* three checks of verifyKennyProofData compare the proof with what the node
\* answers then
CallFormatProof ==
    /\ LET formattedProof == FormattedProof(args.proof) IN
          \E isValid \in {VerifyKennyProofData(indexValid, proofValid, witnessValid) :
                            indexValid \in BOOLEAN, proofValid \in BOOLEAN,
                            witnessValid \in BOOLEAN} :
             ret' = [fn |-> "processKennyRequest", isValid |-> isValid,
                     value |-> Returned(formattedProof, isValid)]
    /\ UNCHANGED <<args, server>>

InitFormat ==
    /\ Idle
    /\ args \in {[proof |-> [merkleProofDepth |-> d,
                             witnessMerkleProof |-> w,
                             coinbaseMerkleProof |-> c,
                             coinbaseTransaction |-> CommittingCoinbase,
                             witnessReservedValue |-> Zero32]] :
                    d \in 0..MaxChunks,
                    w \in WitnessMerkleProofs,
                    c \in CoinbaseMerkleProofs}
    /\ ret = NoRet

NextFormat ==
    \/ CallSplitIntoChunksSimple
    \/ CallFormatProof

\* The formatting of every proof the library can answer
SpecFormat == InitFormat /\ [][NextFormat]_vars

\* the reserved values bitcoinTxProof can report: 32 bytes, the empty string
\* or none
ReservedValues == {Zero32, Hash32, <<>>, Undefined}

\* the coinbases of one piece less
ShortCoinbases ==
    {Flatten(ss) : ss \in UNION {[1..n -> Segments] : n \in 1..(MaxSegments - 1)}}

\* every such coinbase, or none, with every reserved value (match on a coinbase
\* that is undefined throws inside extractWitnessCommitment's try block)
InitWitnessRoot ==
    /\ Idle
    /\ args \in {[proof |-> [merkleProofDepth |-> 1,
                             witnessMerkleProof |-> Hash32,
                             coinbaseMerkleProof |-> Hash32,
                             coinbaseTransaction |-> cb,
                             witnessReservedValue |-> rv]] :
                    cb \in ShortCoinbases \cup {Undefined}, rv \in ReservedValues}
    /\ ret = NoRet

NextWitnessRoot == CallFormatProof

\* The witness root of the alternate strategy on every coinbase
SpecWitnessRoot == InitWitnessRoot /\ [][NextWitnessRoot]_vars

\* ----------------------------------------------------------- fee endpoint
\* Math.max, Math.min
Max(a, b) == IF a >= b THEN a ELSE b
Min(a, b) == IF a <= b THEN a ELSE b

\* mutant: the rates are not capped
FeeRatesUncapped(baseFeeRate) ==
    LET baseSatsPerVbyte == Round(baseFeeRate * CONVERSION_FACTOR, FeeUnit)
        low == Max(1, baseSatsPerVbyte)
        medium == Max(low + 1, Round(low * 3, 2))
        high == Max(medium + 1, Round(low * 2, 1))
    IN [low |-> low, medium |-> medium, high |-> high]

\* the rates GET /api/bitcoin/fees derives from the node's 6-block rate
FeeRates(baseFeeRate) ==
    LET baseSatsPerVbyte == Round(baseFeeRate * CONVERSION_FACTOR, FeeUnit)
        low == Max(1, baseSatsPerVbyte)
        medium == Max(low + 1, Round(low * 3, 2))
        high == Max(medium + 1, Round(low * 2, 1))
    IN IF low > MAX_LOW \/ medium > MAX_MEDIUM \/ high > MAX_HIGH
       THEN LET cappedLow == Min(low, MAX_LOW)
                cappedMedium == Max(cappedLow + 1, Min(medium, MAX_MEDIUM))
                cappedHigh == Max(cappedMedium + 1, Min(high, MAX_HIGH))
            IN [low |-> cappedLow, medium |-> cappedMedium, high |-> cappedHigh]
       ELSE [low |-> low, medium |-> medium, high |-> high]

\* GET /api/bitcoin/fees: args is the key of the request and the answer of
\* the node to estimatesmartfee (up: the call did not throw; hasFeerate:
\* result.feerate is there), ret the response
GetFees ==
    /\ ret' =
         IF args.key # API_KEY
         THEN [fn |-> "fees", http |-> 401, low |-> 0, medium |-> 0, high |-> 0]
         ELSE IF ~args.up
         THEN [fn |-> "fees", http |-> 500, low |-> 1, medium |-> 2, high |-> 3]
         ELSE LET baseFeeRate == IF args.hasFeerate /\ args.feerate # 0
                                 THEN args.feerate ELSE DefaultFeeRate
                  rates == FeeRates(baseFeeRate)
              IN [fn |-> "fees", http |-> 200, low |-> rates.low,
                  medium |-> rates.medium, high |-> rates.high]
    /\ UNCHANGED <<args, server>>

InitFees ==
    /\ Idle
    /\ args \in [key : ApiKeys, up : BOOLEAN, hasFeerate : BOOLEAN,
                 feerate : 0..MaxFeeRate]
    /\ ret = NoRet

NextFees == GetFees

\* The fee endpoint on every answer of the node
SpecFees == InitFees /\ [][NextFees]_vars

\* ------------------------------------------- the proof library on a block
\* the transactions the node can put after the coinbase, and their wtxids
NodeTxids == <<"t1", "t2", "t3", "t4">>
NodeWtxids == <<"w1", "w2", "w3", "w4">>

RECURSIVE BlockMerkleRoot(_)
\* the Merkle root a block header carries for its txid leaves: a single leaf
\* is the root, an odd level repeats its last hash
BlockMerkleRoot(level) ==
    IF Len(level) = 1
    THEN level[1]
    ELSE LET even == IF Len(level) % 2 = 1 THEN Append(level, level[Len(level)])
                     ELSE level
         IN BlockMerkleRoot([i \in 1..(Len(even) \div 2) |->
                                Sha256d(even[2 * i - 1] \o even[2 * i])])

\* getblock's answer for a block of n transactions whose transactions in
\* segwitAt carry a witness; chash is the hash reported for the coinbase
NodeBlock(n, segwitAt, chash, ctx) ==
    LET tx == <<Tx("c1", chash, ctx)>> \o
              [i \in 1..(n - 1) |->
                  IF i \in segwitAt THEN Tx(NodeTxids[i], NodeWtxids[i], SegwitTx)
                  ELSE Tx(NodeTxids[i], NodeTxids[i], LegacyTx)]
    IN [isNull |-> FALSE, hash |-> "bN", height |-> 103, tx |-> tx,
        merkleroot |-> Reverse(BlockMerkleRoot(
                           [i \in 1..n |-> Reverse(HexDecode[tx[i].txid])]))]

NodeBlocks ==
    {NodeBlock(n, S, chash, ctx) :
        n \in 1..MaxBlockTxs, S \in SUBSET (1..(MaxBlockTxs - 1)),
        chash \in {"c1", "cw1"}, ctx \in {CommittingCoinbase, PlainCoinbase}}

\* getTxDataEfficiently(data)
CallGetTxDataEfficiently ==
    /\ ret' = [fn |-> "getTxDataEfficiently",
               txids |-> GetTxDataEfficiently(args.data.block.tx)]
    /\ UNCHANGED <<args, server>>

\* extractProofInfo(getProofGenerationData(data), data); reversedWTxIds is
\* the witness leaf list it builds
CallExtractProofInfo ==
    /\ LET pgd == GetProofGenerationData(args.data, "ok") IN
        ret' = [fn |-> "extractProofInfo", ok |-> pgd.ok, err |-> pgd.err,
                reversedWTxIds |-> IF pgd.ok THEN ReversedWTxIds(pgd) ELSE <<>>,
                proof |-> IF pgd.ok THEN ExtractProofInfo(pgd) ELSE EmptyProofSet]
    /\ UNCHANGED <<args, server>>

InitBlock ==
    /\ Idle
    /\ args \in {[data |-> [ok |-> TRUE, err |-> NoError, txid |-> t, block |-> b]] :
                    t \in {"c1"} \cup {NodeTxids[i] : i \in 1..(MaxBlockTxs - 1)},
                    b \in NodeBlocks}
    /\ ret = NoRet

NextBlock ==
    \/ CallGetTxDataEfficiently
    \/ CallExtractProofInfo

\* The proof library on every block of the node and every target
SpecBlock == InitBlock /\ [][NextBlock]_vars

\* Normal request flow for every transaction at one instant
Next ==
    \/ \E k \in ApiKeys, t \in TxIds : RequestProof(k, t)
    \/ \E k \in ApiKeys, t \in TxIds : StartJob(k, t)
    \/ \E p \in Pids, o \in Results \cup Errors : Settle(p, o)
    \/ \E p \in Pids : Resume(p)
    \/ \E k \in ApiKeys, j \in PollIds : PollJob(k, j)
    \/ \E k \in ApiKeys, t \in TxIds : StatusByTxid(k, t)
    \/ \E k \in ApiKeys : Reject(k)

Spec == Init /\ [][Next]_vars

\* Request flow for one transaction while time passes
NextTime ==
    \/ \E k \in ApiKeys : RequestProof(k, "t1")
    \/ \E k \in ApiKeys : StartJob(k, "t1")
    \/ \E p \in Pids, o \in Results \cup Errors : Settle(p, o)
    \/ \E p \in Pids : Resume(p)
    \/ \E k \in ApiKeys, j \in PollIds : PollJob(k, j)
    \/ \E k \in ApiKeys : StatusByTxid(k, "t1")
    \/ Tick

SpecTime == Init /\ [][NextTime]_vars

\* Request flow for one transaction with the administrative cache clears
NextClear ==
    \/ \E k \in ApiKeys : RequestProof(k, "t1")
    \/ \E k \in ApiKeys : StartJob(k, "t1")
    \/ \E p \in Pids, o \in Results \cup Errors : Settle(p, o)
    \/ \E p \in Pids : Resume(p)
    \/ \E k \in ApiKeys, j \in PollIds : PollJob(k, j)
    \/ \E k \in ApiKeys : StatusByTxid(k, "t1")
    \/ \E k \in ApiKeys : ClearOne(k, "t1")
    \/ \E k \in ApiKeys : ClearAll(k)

SpecClear == Init /\ [][NextClear]_vars

\* One transaction requested through the synchronous facade and one through
\* the asynchronous one, with the administrative cache clears on both
NextFrame ==
    \/ \E k \in ApiKeys : RequestProof(k, "t1")
    \/ \E k \in ApiKeys : StartJob(k, "t2")
    \/ \E p \in Pids, o \in Results \cup Errors : Settle(p, o)
    \/ \E p \in Pids : Resume(p)
    \/ \E k \in ApiKeys, t \in TxIds : ClearOne(k, t)
    \/ \E k \in ApiKeys : ClearAll(k)

SpecFrame == Init /\ [][NextFrame]_vars

\* Jobs for one transaction that nobody polls, with the cache clears.
\* Every call processKennyRequest awaits returns or fails in
\* the end, so that every execution settles.
NextJob ==
    \/ \E k \in ApiKeys : StartJob(k, "t1")
    \/ \E p \in Pids, o \in Results \cup Errors : Settle(p, o)
    \/ \E k \in ApiKeys : ClearOne(k, "t1")
    \/ \E k \in ApiKeys : ClearAll(k)

SpecJob ==
    /\ Init
    /\ [][NextJob]_vars
    /\ \A p \in Pids : WF_vars(\E o \in Results \cup Errors : Settle(p, o))

\* the primary endpoint next to the alternate one, for one transaction
NextProof ==
    \/ \E k \in ApiKeys, t \in TxIds, bh \in BlockHashes \cup {""}, txInfo \in TxInfos,
          upBlock \in BOOLEAN, upHex \in BOOLEAN, parse \in Parses :
            GetProof(k, t, bh, txInfo, upBlock, upHex, parse)
    \/ \E k \in ApiKeys : RequestProof(k, "t1")
    \/ \E k \in ApiKeys : StartJob(k, "t1")
    \/ \E p \in Pids, o \in Results \cup Errors : Settle(p, o)
    \/ \E p \in Pids : Resume(p)

SpecProof == Init /\ [][NextProof]_vars

\* ================================================================ claims
\* a processKennyRequest execution for txid t is started in this step
StartsExecution(t) ==
    \E q \in Pids : /\ promises[q].st = "unused"
                    /\ promises'[q].st = "pending"
                    /\ promises'[q].txid = t

\* response r carries the outcome of the settled promise pr
Matches(r, pr) ==
    /\ r.op = "requestProof"
    /\ r.txid = pr.txid
    /\ IF pr.st = "fulfilled"
       THEN r.http = 200 /\ r.result = pr.val /\ r.error = NoError
       ELSE r.http = 500 /\ r.error = pr.val /\ r.result = NoResult

\* C1: with no cache-clear executed, at most one processKennyRequest
\* execution is in flight for any txid, in every reachable state.
C1_AtMostOneInFlight ==
    ~cleared => \A t \in TxIds : Cardinality(InFlight(t)) <= 1

\* a startJob call found the execution for its txid running and attached to it
C1_Witness ==
    /\ resp.op = "startJob"
    /\ resp.jobId = ExistingJobId(resp.txid)
    /\ InFlight(resp.txid) # {}

\* C2: while an execution started by requestProof is in flight no second one
\* is started for that txid, and the caller that started it and every caller
\* that awaited it are sent the outcome of that one promise: its value with
\* 200 if it was fulfilled, its error with 500 if it was rejected.
C2_Dedup ==
    [][/\ \A t \in TxIds : InFlight(t) # {} => ~StartsExecution(t)
       /\ \A p \in Pids :
            /\ ( /\ promises[p].st = "pending"
                 /\ promises[p].starter = "sync"
                 /\ promises'[p].st \in {"fulfilled", "rejected"} )
               => (resp'.via = "starter" /\ Matches(resp', promises'[p]))
            /\ waiters'[p] < waiters[p]
               => (resp'.via = "await" /\ Matches(resp', promises[p]))
      ]_vars

\* a caller that awaited a running execution is sent its error while another
\* caller is still to be resumed from the same promise
C2_Witness ==
    /\ resp.via = "await"
    /\ resp.http = 500
    /\ \E p \in Pids : waiters[p] > 0 /\ promises[p].st = "rejected"

\* C3: once a completed result was observed for a txid, and no cache-clear was
\* executed, no step starts processKennyRequest for that txid.
C3_NoReexecution ==
    [][\A t \in TxIds : (seen[t] # NoResult /\ ~cleared') => ~StartsExecution(t)]_vars

\* after the observation a startJob call for the txid was answered from the cache
C3_Witness ==
    /\ resp.op = "startJob"
    /\ resp.status = "completed"
    /\ seen[resp.txid] = resp.result
    /\ \A p \in Pids : promises[p].st = "unused"

\* what C4 asks of the response sent in a step, for a txid whose completed
\* result was observed before the step
Monotonic(r, t) ==
    /\ (r.txid = t /\ r.op \in {"requestProof", "startJob", "statusByTxid"} /\ r.http # 429)
         => (Completes(r) /\ r.result = seen[t])
    /\ (r.txid = t /\ r.op = "pollJob" /\ r.http = 200)
         => (r.status # "processing" /\ (r.status = "completed" => r.result = seen[t]))

C5_JobIdPollable ==
    [][(resp'.op = "startJob" /\ resp'.http = 200) => kennyJobs'[resp'.jobId] # NoJob]_vars

\* C6: requestProof for a cached txid answers with the cached result and
\* starts nothing, whatever the caller's rate-limit counter is.
C6_CachedFirst ==
    [][\A t \in TxIds :
        ( /\ kennyProofCache[t] # NoResult
          /\ resp'.op = "requestProof" /\ resp'.via = "handler" /\ resp'.txid = t )
        => ( /\ resp'.http = 200
             /\ resp'.result = kennyProofCache[t]
             /\ ~StartsExecution(t) )]_vars

\* C7: when the primary strategy fails with 'Unknown version' the request runs
\* the alternate strategy (an execution of processKennyRequest starts or its
\* cached result is sent); after every other primary failure it does not.
C7_Fallback ==
    [][resp'.op = "proof" =>
        /\ resp'.error = "Unknown version"
             => (StartsExecution(resp'.txid) \/ resp'.http = 200)
        /\ (resp'.http = 500 /\ resp'.error # "Unknown version")
             => ~StartsExecution(resp'.txid)]_vars

\* the caller has used its quota: KENNY_RATE_LIMIT requests admitted since the
\* rate-limit record was created, less than KENNY_RATE_WINDOW ago
QuotaUsed(k) ==
    LET usage == kennyRequestTracker[RateLimitKey(k)] IN
    /\ usage # NoUsage
    /\ usage.count >= KENNY_RATE_LIMIT
    /\ now < usage.resetTime

\* C8: no window of length KENNY_RATE_WINDOW holds more than KENNY_RATE_LIMIT
\* admitted alternate-strategy requests of one caller, whichever facade they
\* come through: once the caller has KENNY_RATE_LIMIT requests admitted in the
\* running window, no request of its starts a further processKennyRequest
\* execution in it and its rate-limit record stays as it is.
C8_QuotaBothFacades ==
    [][QuotaUsed(API_KEY) =>
        /\ \A t \in TxIds : ~StartsExecution(t)
        /\ kennyRequestTracker' = kennyRequestTracker]_vars

\* C9: a requestProof call answered 429 carries retryAfter >= 1 and leaves
\* the rate-limit record, the cache, the in-flight table, the job table and
\* the promises as they were.
C9_RejectionChangesNothing ==
    [][(resp'.op = "requestProof" /\ resp'.http = 429) =>
        /\ resp'.retryAfter >= 1
        /\ UNCHANGED orchestrator]_vars

\* a request is rejected one millisecond before the window ends
C9_Witness ==
    /\ resp.op = "requestProof"
    /\ resp.http = 429
    /\ kennyRequestTracker[RateLimitKey(API_KEY)].resetTime - now = 1

\* the transaction of response r is not in the block the request was run on
NotInBlock(r) ==
    /\ r.blockHash \in BlockHashes
    /\ FindIndex(Chain[r.blockHash].tx, r.txid) = -1

\* C10: a proof request for a txid that is not in the fetched block is
\* answered with an error, and a processKennyRequest execution that fails
\* leaves the result cache as it was.
C10_NotInBlockFails ==
    [][/\ (resp'.op = "proof" /\ NotInBlock(resp'))
            => (resp'.http = 500 /\ resp'.error # NoError)
       /\ (resp'.via \in {"starter", "log"} /\ resp'.status \in {"error", "failed"})
            => kennyProofCache' = kennyProofCache]_vars

\* the node was reachable, the block was fetched and the txid was not in it
C10_Witness ==
    /\ resp.op = "proof"
    /\ NotInBlock(resp)
    /\ resp.status = "proof_generation"
    /\ resp.error = "TypeError"

\* C12: for every non-empty leaf list and every index into it, the leaf is
\* verified by the proof generateMerkleProof builds for it against the root
\* generateMerkleRoot builds from the same leaves.
C12_ProofVerifies ==
    ret.fn = "verifyMerkleProofHex" => ret.valid

\* C13: for a list of one leaf the root is the leaf itself, and the proof of
\* that leaf has no sibling and depth 0.
C13_SingleLeaf ==
    (ret.fn \in {"generateMerkleRoot", "generateMerkleProof"} /\ Len(ret.hashes) = 1) =>
        /\ ret.fn = "generateMerkleRoot" => ret.root = ret.hashes[1]
        /\ ret.fn = "generateMerkleProof" =>
                (ret.err = NoError /\ ret.merkleProof = <<>> /\ ret.treeDepth = 0)

\* C14: the root of a list of odd length is the root of the list with its last
\* element appended once more, and the root of [h0, h1, h2] is
\* combine(combine(h0, h1), combine(h2, h2)).
C14_OddDuplication ==
    (ret.fn = "generateMerkleRoot" /\ Len(ret.hashes) % 2 = 1) =>
        LET L == ret.hashes IN
        /\ ret.root = GenerateMerkleRoot(Append(L, L[Len(L)]))
        /\ Len(L) = 3 =>
              ret.root = HashPair(HashPair(L[1], L[2]), HashPair(L[3], L[3]))

\* the root of three leaves was computed, and the fourth leaf was pushed
C14_Witness ==
    /\ ret.fn = "generateMerkleRoot"
    /\ Len(ret.hashes) = 3
    /\ Len(args.hashes) = 4

\* the least d with 2^d >= n
CeilLog2(n) == CHOOSE d \in 0..n : Pow2(d) >= n /\ \A e \in 0..(d - 1) : Pow2(e) < n

\* C15: for a leaf of the list generateMerkleProof raises no error and returns
\* as many siblings as treeDepth, which is ceil(log2(number of leaves)); for
\* one leaf the depth is 0 and there is no sibling.
C15_ProofLength ==
    ret.fn = "generateMerkleProof" =>
        /\ ret.err = NoError
        /\ Len(ret.merkleProof) = ret.treeDepth
        /\ ret.treeDepth = CeilLog2(Len(ret.hashes))
        /\ Len(ret.hashes) = 1 => (ret.treeDepth = 0 /\ ret.merkleProof = <<>>)

\* the proof of the last of five leaves has three siblings
C15_Witness ==
    /\ ret.fn = "generateMerkleProof"
    /\ Len(ret.hashes) = 5
    /\ ret.index = 4
    /\ Len(ret.merkleProof) = 3

\* the root the block of response r reports is not the root of its txids
RootMismatch(r) ==
    /\ r.blockHash \in BlockHashes
    /\ LET b == Chain[r.blockHash]
           leaves == [i \in 1..Len(b.tx) |-> Reverse(HexDecode[b.tx[i].txid])]
       IN Reverse(b.merkleroot) # GenerateMerkleRoot(leaves)

\* C11: when the Merkle root computed from the block's txids differs from the
\* byte-reversed root the block reports, the proof request is answered with
\* an error, never with a successful response.
C11_MismatchIsError ==
    (resp.op = "proof" /\ RootMismatch(resp)) =>
        (resp.http # 200 /\ resp.error # NoError)

\* the offsets of the marker 6a24aa21a9ed (hex digits in either case) that
\* 32 whole bytes follow, and the bytes that follow one of them
MarkerOffsets(coinbase) ==
    {i \in 0..(Len(coinbase) - 76) :
        ToLowerCase(Substring(coinbase, i, i + 12)) = Marker}

Following(coinbase, i) == ToLowerCase(Substring(coinbase, i + 12, i + 76))

\* C16: the commitment extracted from a coinbase that holds the marker once,
\* followed by a non-zero value, is the 32 bytes after the marker, and from a
\* coinbase that does not hold the marker nothing is extracted (NotFound),
\* never some other bytes of the transaction.
C16_MarkerOrNotFound ==
    ret.fn \in {"extractWitnessCommitment", "getCommitmentHashFromRawCtx"} =>
        LET at == MarkerOffsets(args.coinbase)
        IN /\ IndexOf(ToLowerCase(args.coinbase), Marker) = -1
                => ret.value \in {Null, <<>>}
           /\ \A i \in at :
                (at = {i} /\ Following(args.coinbase, i) # Zero32)
                    => ret.value = Following(args.coinbase, i)

\* C17: extractWitnessCommitment never returns the all-zero value, returns
\* NotFound when every marker occurrence is followed by the all-zero
\* placeholder, and returns a non-zero value when some marker occurrence is
\* followed by one.
C17_NonZeroCommitment ==
    ret.fn = "extractWitnessCommitment" =>
        LET at == MarkerOffsets(args.coinbase)
        IN /\ ret.value # Zero32
           /\ (at # {} /\ \A i \in at : Following(args.coinbase, i) = Zero32)
                => ret.value = Null
           /\ (\E i \in at : Following(args.coinbase, i) # Zero32)
                => ret.value # Null

\* C18: verifyWitnessCommitment(root, reserved, expected), expected being
\* calculateWitnessCommitment of some root and reserved value, is true
\* exactly when both the root and the reserved value are the ones the
\* commitment was calculated from.
C18_CommitmentLaw ==
    ret.fn = "verifyWitnessCommitment" =>
        (ret.valid <=> <<args.root, args.reserved>> = args.expectedOf)

\* a commitment over a non-zero reserved value has been verified, and so has
\* been one whose reserved value differs from the one committed to
C18_Witness ==
    /\ ret.fn = "verifyWitnessCommitment"
    /\ ret.valid
    /\ args.reserved # <<"0", "0">>

C18_WitnessReject ==
    /\ ret.fn = "verifyWitnessCommitment"
    /\ ~ret.valid
    /\ args.root = args.expectedOf[1]
    /\ args.reserved # args.expectedOf[2]

\* what the parser makes of the two whole serializations
ParsedInput ==
    [outpoint |-> [hash |-> Ox(Hash32), index |-> Ox(Rep(<<"0">>, 8))],
     scriptSig |-> Ox(<<"5", "1">>),
     sequence |-> Ox(Rep(<<"f">>, 8))]

ParsedOutput ==
    [value |-> Ox(<<"e", "8", "0", "3">> \o Rep(<<"0">>, 12)),
     scriptPubKey |-> Ox(<<"5", "1">>)]

Unprefixed(tx) ==
    IF Len(tx) >= 2 /\ SubSeq(tx, 1, 2) = <<"0", "x">> THEN SubSeq(tx, 3, Len(tx)) ELSE tx

\* C19: decoding a truncated or otherwise malformed raw transaction fails
\* with MalformedTransaction and yields no parsed transaction, while a whole
\* one is decoded into its fields.
C19_MalformedFails ==
    ret.fn = "parseKennyTransactionDataSimple" =>
        IF Unprefixed(args.tx) \in WholeTxs
        THEN /\ ret.value.error = NoError
             /\ ret.value.wtx = [version |-> Ox(TxVersion),
                                 ins |-> <<ParsedInput>>,
                                 outs |-> <<ParsedOutput>>,
                                 locktime |-> Ox(TxLocktime)]
        ELSE ret.value.error # NoError

\* C20: every proof array of a proof that is returned consists of whole
\* 32-byte chunks that are taken from the proof, none of them made up of or
\* filled up with zeros, and a proof with fewer chunks than treeDepth is not
\* returned: the request fails.
C20_WholeChunksOrRejected ==
    ret.fn = "processKennyRequest" =>
        (ret.value.error = NoError =>
            /\ \A k \in 1..Len(ret.value.wproof) : ret.value.wproof[k] \in {Hash32, Chunk32}
            /\ \A k \in 1..Len(ret.value.cproof) : ret.value.cproof[k] = Hash32
            /\ Len(ret.value.wproof) >= ret.value.treeDepth)

\* C21: the single-key cache-clear takes the cache entry and the in-flight
\* entry of its txid away and leaves the entries of every other txid, the
\* job table and the rate-limit records as they were; the clear-all empties
\* the cache, the in-flight table and the job table and leaves the
\* rate-limit records as they were.
C21_ClearFrame ==
    [][/\ resp'.op = "clearOne" =>
            /\ kennyProofCache'[resp'.txid] = NoResult
            /\ ongoingKennyRequests'[resp'.txid] = NoPromise
            /\ \A u \in TxIds \ {resp'.txid} :
                    /\ kennyProofCache'[u] = kennyProofCache[u]
                    /\ ongoingKennyRequests'[u] = ongoingKennyRequests[u]
            /\ kennyJobs' = kennyJobs
            /\ kennyRequestTracker' = kennyRequestTracker
       /\ resp'.op = "clearAll" =>
            /\ \A u \in TxIds : kennyProofCache'[u] = NoResult
            /\ \A u \in TxIds : ongoingKennyRequests'[u] = NoPromise
            /\ \A j \in JobIds : kennyJobs'[j] = NoJob
            /\ kennyRequestTracker' = kennyRequestTracker]_vars

\* a single-key clear took away the cached result of a txid that had been
\* observed completed, while the other txid is in flight as a job and the
\* caller has a rate-limit record
C21_Witness ==
    /\ resp.op = "clearOne"
    /\ seen[resp.txid] # NoResult
    /\ kennyProofCache[resp.txid] = NoResult
    /\ \E u \in TxIds \ {resp.txid} : ongoingKennyRequests[u] # NoPromise
    /\ \E j \in JobIds : kennyJobs[j].status = "processing"
    /\ kennyRequestTracker[RateLimitKey(API_KEY)] # NoUsage

\* C22: the execution of a job started through startJob settles whatever
\* is cleared meanwhile, and then its job record is completed or failed; when
\* it succeeds, its result is in the cache and in the job record without
\* anybody polling.
C22_JobRunsToCompletion ==
    /\ \A p \in Pids, j \in JobIds :
            (promises[p].st = "pending" /\ promises[p].jobId = j)
                ~> (kennyJobs[j].status \in {"completed", "failed"})
    /\ [][(resp'.via = "log" /\ resp'.status = "completed") =>
            /\ kennyProofCache'[resp'.txid] \in Results
            /\ kennyJobs'[resp'.jobId].status = "completed"
            /\ kennyJobs'[resp'.jobId].result = kennyProofCache'[resp'.txid]]_vars

\* a job whose in-flight entry and record were cleared while it was running
\* has completed and its result is cached
C22_Witness ==
    /\ cleared
    /\ resp.via = "log"
    /\ resp.status = "completed"
    /\ kennyJobs[resp.jobId].status = "completed"
    /\ ongoingKennyRequests[resp.txid] = NoPromise
    /\ \E p \in Pids : promises[p].st = "pending"
    /\ kennyProofCache[resp.txid] = kennyJobs[resp.jobId].result

\* C23: when an execution fails with error e, nothing is cached; the caller
\* that started it through requestProof is answered 500 with e; the job of
\* the startJob call that started it becomes failed with e and without
\* result; the callers awaiting it are left a promise rejected with e and
\* each is answered 500 with e when it resumes; and pollJob on a failed job
\* answers failed with the error of the record.
C23_FailureReported ==
    [][/\ \A p \in Pids, e \in Errors :
            Settle(p, e) =>
                /\ kennyProofCache' = kennyProofCache
                /\ promises[p].starter = "sync" =>
                        (resp'.op = "requestProof" /\ resp'.http = 500 /\ resp'.error = e)
                /\ promises[p].starter = "async" =>
                        /\ kennyJobs'[promises[p].jobId].status = "failed"
                        /\ kennyJobs'[promises[p].jobId].error = e
                        /\ kennyJobs'[promises[p].jobId].result = NoResult
                /\ waiters[p] > 0 =>
                        (promises'[p].st = "rejected" /\ promises'[p].val = e)
       /\ \A p \in Pids :
            (waiters'[p] < waiters[p] /\ promises[p].st = "rejected") =>
                (resp'.op = "requestProof" /\ resp'.http = 500 /\ resp'.error = promises[p].val)
       /\ (resp'.op = "pollJob" /\ kennyJobs[resp'.jobId].status = "failed") =>
            /\ resp'.status = "failed"
            /\ resp'.error = kennyJobs[resp'.jobId].error
            /\ resp'.error \in Errors
            /\ resp'.result = NoResult]_vars

\* pollJob answered with the error of a failed job, nothing being cached
\* for its txid
C23_Witness ==
    /\ resp.op = "pollJob"
    /\ resp.status = "failed"
    /\ resp.error \in Errors
    /\ kennyJobs[resp.jobId].error = resp.error
    /\ kennyProofCache[resp.txid] = NoResult

\* C24: the failure of an execution removes the in-flight entry of its txid
\* and caches nothing, and a requestProof call that passes the limiter or a
\* startJob call for a txid that has neither a cached result nor an in-flight
\* entry starts a new execution and awaits no older one.
C24_RetryAfterFailure ==
    [][/\ \A p \in Pids, e \in Errors :
            Settle(p, e) =>
                /\ ongoingKennyRequests'[promises[p].txid] = NoPromise
                /\ kennyProofCache' = kennyProofCache
       /\ \A t \in TxIds :
            ( /\ kennyProofCache[t] = NoResult
              /\ ongoingKennyRequests[t] = NoPromise
              /\ \/ (\E k \in ApiKeys : RequestProof(k, t)) /\ resp'.http # 429
                 \/ \E k \in ApiKeys : StartJob(k, t) )
            => ( /\ StartsExecution(t)
                 /\ ongoingKennyRequests'[t] # NoPromise
                 /\ waiters' = waiters
                 /\ resp'.jobId # ExistingJobId(t) )]_vars

\* a startJob call started a new job for a txid whose earlier job has failed
C24_Witness ==
    /\ resp.op = "startJob"
    /\ resp.status = "processing"
    /\ kennyJobs[resp.jobId].status = "processing"
    /\ InFlight(resp.txid) # {}
    /\ \E j \in JobIds : /\ j # resp.jobId
                         /\ j[2] = resp.txid
                         /\ kennyJobs[j].status = "failed"

\* C25: a job record that is completed or failed stays as it is (or goes
\* with the whole table), a record that appears appears as processing, and
\* the record a startJob call creates for the execution it starts is a new
\* one, not the record of an earlier execution.
C25_JobLifecycle ==
    [][\A j \in JobIds :
        /\ kennyJobs[j].status \in {"completed", "failed"}
                => kennyJobs'[j] \in {kennyJobs[j], NoJob}
        /\ kennyJobs[j] = NoJob
                => kennyJobs'[j].status \in {"absent", "processing"}
        /\ (StartsExecution(j[2]) /\ resp'.op = "startJob" /\ resp'.jobId = j)
                => kennyJobs[j] = NoJob]_vars

\* C26: the rate-limit record of a caller changes only when a requestProof
\* call of the caller passes the limiter and counts the calls that passed
\* since it was created; its count is between 1 and KENNY_RATE_LIMIT; before
\* resetTime a call passes and adds one while the count is below
\* KENNY_RATE_LIMIT and is rejected otherwise, leaving the record as it is;
\* at or after resetTime a call passes and replaces the record with count 1
\* and resetTime one window later.
C26_WindowQuota ==
    [][LET u == kennyRequestTracker[RateLimitKey(API_KEY)]
           v == kennyRequestTracker'[RateLimitKey(API_KEY)]
       IN /\ v # NoUsage => (v.count >= 1 /\ v.count <= KENNY_RATE_LIMIT)
          /\ v # u => \E t \in TxIds : RequestProof(API_KEY, t)
          /\ \A t \in TxIds :
                RequestProof(API_KEY, t) =>
                    IF u # NoUsage /\ now < u.resetTime
                    THEN IF u.count >= KENNY_RATE_LIMIT
                         THEN resp'.http = 429 /\ v = u
                         ELSE /\ resp'.http # 429
                              /\ v = [count |-> u.count + 1, resetTime |-> u.resetTime]
                    ELSE /\ resp'.http # 429
                         /\ v = [count |-> 1, resetTime |-> now + KENNY_RATE_WINDOW]]_vars

\* the record was replaced: a caller awaits the execution that a call of the
\* window before started, and the record counts one call
C26_Witness ==
    /\ kennyRequestTracker[RateLimitKey(API_KEY)].count = 1
    /\ kennyRequestTracker[RateLimitKey(API_KEY)].resetTime = now + KENNY_RATE_WINDOW
    /\ \E p \in Pids : /\ waiters[p] > 0
                       /\ promises[p].st = "pending"
                       /\ promises[p].starter = "sync"


\* ------------------------------------------------------------------ C27
\* C27: in the witness leaf list leaf 0, the coinbase's, is the all-zero
\* value whatever wtxid the node reports for the coinbase.
C27_CoinbaseWitnessLeafZero ==
    /\ ret.fn = "getTxDataEfficiently" => ret.txids[1].wtxid = ZeroHash
    /\ (ret.fn = "extractProofInfo" /\ ret.ok)
          => ret.reversedWTxIds[1] = HexDecode[ZeroHash]

C27_Witness ==
    /\ ret.fn = "extractProofInfo"
    /\ ret.ok
    /\ ret.proof.segwit
    /\ args.data.block.tx[1].hash # args.data.block.tx[1].txid
    /\ Len(ret.reversedWTxIds) = MaxBlockTxs

\* ------------------------------------------------------------------ C28
\* C28 as stated: every transaction record of a block, the one at index 0
\* included, is flagged segwit exactly when its wtxid differs from its txid.
C28_Original ==
    ret.fn = "getTxDataEfficiently"
       => \A i \in 1..Len(ret.txids) :
             ret.txids[i].segwit <=> (ret.txids[i].wtxid # ret.txids[i].txid)

\* C28 amended: every transaction record after index 0 is flagged segwit
\* exactly when its wtxid differs from its txid; the record at index 0, the
\* coinbase's, is never flagged segwit.
C28_SegwitFlag ==
    ret.fn = "getTxDataEfficiently"
       => /\ Len(ret.txids) = Len(args.data.block.tx)
          /\ ~ret.txids[1].segwit
          /\ \A i \in 2..Len(ret.txids) :
                /\ ret.txids[i].wtxid = args.data.block.tx[i].hash
                /\ ret.txids[i].txid = args.data.block.tx[i].txid
                /\ ret.txids[i].segwit <=> (ret.txids[i].wtxid # ret.txids[i].txid)

C28_Witness ==
    /\ ret.fn = "getTxDataEfficiently"
    /\ args.data.block.tx[1].hash # args.data.block.tx[1].txid
    /\ \E i, j \in 2..Len(ret.txids) : ret.txids[i].segwit /\ ~ret.txids[j].segwit

\* ------------------------------------------------------------------ C29
\* the txid leaves and the witness leaves of the block handed to the library
TxidLeavesOf(block) ==
    [i \in 1..Len(block.tx) |-> Reverse(HexDecode[block.tx[i].txid])]

WtxidLeavesOf(block) ==
    [i \in 1..Len(block.tx) |->
        IF i = 1 THEN HexDecode[ZeroHash] ELSE Reverse(HexDecode[block.tx[i].hash])]

\* C29: every assembled proof set holds the coinbase proof, built for index
\* 0 over the txid leaves; for a non-segwit target the proof is over the
\* txid leaves and there is no witness root, reserved value or commitment;
\* for a segwit target the proof is over the wtxid leaves and the witness
\* root is the root of the wtxid leaves.
C29_ProofSetParts ==
    (ret.fn = "extractProofInfo" /\ ret.proof # EmptyProofSet)
       => LET pr == ret.proof
              block == args.data.block
              txidLeaves == TxidLeavesOf(block)
              wtxidLeaves == WtxidLeavesOf(block)
          IN /\ pr.txId = args.data.txid
             /\ block.tx[pr.txIndex + 1].txid = pr.txId
             /\ pr.merkleRoot = BlockMerkleRoot(txidLeaves)
             /\ HashUp(txidLeaves[1], pr.cproof, 0, 0) = pr.merkleRoot
             /\ ~pr.segwit =>
                   /\ HashUp(txidLeaves[pr.txIndex + 1], pr.wproof, pr.txIndex, 0)
                         = pr.merkleRoot
                   /\ pr.computedWtxidRoot = Undefined
                   /\ pr.witnessReservedValue = Undefined
                   /\ pr.witnessMerkleRoot = Undefined
             /\ pr.segwit =>
                   /\ pr.computedWtxidRoot = BlockMerkleRoot(wtxidLeaves)
                   /\ HashUp(wtxidLeaves[pr.txIndex + 1], pr.wproof, pr.txIndex, 0)
                         = pr.computedWtxidRoot

C29_Witness ==
    /\ ret.fn = "extractProofInfo"
    /\ ret.proof # EmptyProofSet
    /\ ret.proof.segwit
    /\ ret.proof.txIndex = MaxBlockTxs - 2
    /\ Len(args.data.block.tx) = MaxBlockTxs - 1
    /\ \E i \in 2..Len(args.data.block.tx) :
          args.data.block.tx[i].hash = args.data.block.tx[i].txid

\* ------------------------------------------------------------------ C30
\* C30: the witness root put in the proof of the alternate strategy is the
\* commitment extracted from the coinbase whenever the extraction succeeds,
\* otherwise the reported reserved value, and when there is neither the
\* request does not fail and the root is the all-zero placeholder.
C30_WitnessRootChoice ==
    ret.fn = "processKennyRequest"
       => LET extracted == ExtractWitnessCommitment(args.proof.coinbaseTransaction)
              reserved == args.proof.witnessReservedValue
              root == ret.value.computedWtxidRoot
          IN /\ ret.value.error = NoError
             /\ extracted # Null => root = extracted
             /\ (extracted = Null /\ reserved \notin {Undefined, <<>>}) => root = reserved
             /\ (extracted = Null /\ reserved \in {Undefined, <<>>}) => root = Zero32

C30_Witness ==
    /\ ret.fn = "processKennyRequest"
    /\ args.proof.witnessReservedValue = Zero32
    /\ ret.value.computedWtxidRoot = ToLowerCase(Hash32)
    /\ ret.value.computedWtxidRoot # args.proof.witnessReservedValue

\* ------------------------------------------------------------------ C31
\* C31: for a well-formed witness-encoded transaction the decoder returns as
\* witness bytes the bytes between the end of the last output and the final
\* 4-byte locktime and as locktime the final 4 bytes; for a well-formed
\* non-witness transaction the witness bytes are empty and the locktime is
\* the 4 bytes that follow the last output.
C31_WitnessAndLocktime ==
    ret.fn = "parseKennyTransactionDataSimple"
       => /\ ret.value.error = NoError
          /\ ret.value.witnessData = <<"0", "x">> \o args.witness
          /\ ret.value.wtx.locktime = <<"0", "x">> \o args.locktime

\* ------------------------------------------------------------------ C32
\* a decoded field without its 0x
Stripped(field) == SubSeq(field, 3, Len(field))

\* version, marker and flag, counts, inputs, outputs, witness bytes and
\* locktime of a decoded transaction put together again
Reassembled(value, segwit) ==
    LET ins == value.wtx.ins
        outs == value.wtx.outs
    IN Stripped(value.wtx.version)
          \o (IF segwit THEN <<"0", "0", "0", "1">> ELSE <<>>)
          \o Byte(Len(ins))
          \o Flatten([i \in 1..Len(ins) |->
                Stripped(ins[i].outpoint.hash) \o Stripped(ins[i].outpoint.index)
                   \o Byte(Len(Stripped(ins[i].scriptSig)) \div 2)
                   \o Stripped(ins[i].scriptSig) \o Stripped(ins[i].sequence)])
          \o Byte(Len(outs))
          \o Flatten([i \in 1..Len(outs) |->
                Stripped(outs[i].value)
                   \o Byte(Len(Stripped(outs[i].scriptPubKey)) \div 2)
                   \o Stripped(outs[i].scriptPubKey)])
          \o Stripped(value.witnessData)
          \o Stripped(value.wtx.locktime)

ShortLengths ==
    /\ Len(args.ins) < 253
    /\ Len(args.outs) < 253
    /\ \A i \in 1..Len(args.ins) : args.ins[i] < 253
    /\ \A i \in 1..Len(args.outs) : args.outs[i] < 253

\* C32: for every well-formed transaction whose input count, output count
\* and script lengths are all below 253 the decoded fields are the byte
\* ranges of the input: put together again in order they give the raw
\* transaction, no byte of any field reordered.
C32_RoundTrip ==
    (ret.fn = "parseKennyTransactionDataSimple" /\ ShortLengths)
       => /\ ret.value.error = NoError
          /\ Len(ret.value.wtx.ins) = Len(args.ins)
          /\ Len(ret.value.wtx.outs) = Len(args.outs)
          /\ \A i \in 1..Len(args.ins) :
                ret.value.wtx.ins[i].outpoint.index = <<"0", "x">> \o WfIndex
          /\ Reassembled(ret.value, args.segwit) = Unprefixed(args.tx)

C32_Witness ==
    /\ ret.fn = "parseKennyTransactionDataSimple"
    /\ ShortLengths
    /\ args.segwit
    /\ Len(args.ins) = MaxIns
    /\ Len(args.outs) = MaxOuts
    /\ \E i \in 1..Len(args.ins) : args.ins[i] = 1
    /\ ret.value.witnessData # <<"0", "x">>

\* ------------------------------------------------------------------ C33
\* C33: buildRoot is a pure function of its input: a second call on the same
\* leaf list returns the same root, and neither generateMerkleRoot nor
\* generateMerkleProof changes the leaf list it is given.
C33_PureRoot ==
    /\ ret.fn = "generateMerkleRoot"
          => /\ GenerateMerkleRoot(args.hashes) = ret.root
             /\ args.hashes = ret.hashes
    /\ ret.fn = "generateMerkleProof" => args.hashes = ret.hashes

\* ------------------------------------------------------------------ C34
\* C34: at most one processKennyRequest execution per txid is in flight also
\* when the single-key cache-clear is executed while one is running: a
\* request that arrives after the clear starts no second concurrent
\* execution, and the completion of one execution never removes the
\* in-flight entry of another.
C34_SingleFlightDespiteClear ==
    /\ [](\A t \in TxIds : Cardinality(InFlight(t)) <= 1)
    /\ [][\A p \in Pids, o \in Results \cup Errors :
            (Settle(p, o) /\ ongoingKennyRequests[promises[p].txid] # p)
               => ongoingKennyRequests'[promises[p].txid]
                     = ongoingKennyRequests[promises[p].txid]]_vars

\* ------------------------------------------------------------------ C35
\* C35: after the clear-all operation the result cache and the job table
\* stay empty until a new requestProof or startJob call arrives: an
\* execution that was running when clear-all was executed puts no entry back
\* when it finishes.  Here: when it finishes right after the clear-all.
C35_EmptyAfterClearAll ==
    [][\A p \in Pids, o \in Results \cup Errors :
          (resp.op = "clearAll" /\ Settle(p, o))
             => /\ \A t \in TxIds : kennyProofCache'[t] = NoResult
                /\ \A j \in JobIds : kennyJobs'[j] = NoJob]_vars

\* ------------------------------------------------------------------ C36
\* C36: the proof processKennyRequest returns is the same whether
\* verifyKennyProofData finds it valid or not: the outcome of the
\* verification never makes the request fail and never changes the result.
C36_VerificationIgnored ==
    ret.fn = "processKennyRequest"
       => /\ ret.value.error = NoError
          /\ ret.value.treeDepth = args.proof.merkleProofDepth
          /\ ret.value.wproof = SplitIntoChunksSimple(args.proof.witnessMerkleProof)
          /\ ret.value.cproof = SplitIntoChunksSimple(args.proof.coinbaseMerkleProof)
          /\ ret.value.computedWtxidRoot = WitnessRoot(args.proof)

C36_Witness ==
    /\ ret.fn = "processKennyRequest"
    /\ ~ret.isValid
    /\ Len(ret.value.wproof) = MaxChunks
    /\ ret.value.treeDepth # Len(ret.value.wproof)

\* ------------------------------------------------------------------ C37
\* C37: in every proof set extractProofInfo returns for a target found in
\* the block, the number of elements of wproof, the number of elements of
\* cproof and treeDepth are equal, for segwit and non-segwit targets alike.
C37_EqualDepths ==
    (ret.fn = "extractProofInfo" /\ ret.ok)
       => /\ Len(ret.proof.wproof) = ret.proof.treeDepth
          /\ Len(ret.proof.cproof) = ret.proof.treeDepth
          /\ ret.proof # EmptyProofSet
                => ret.proof.treeDepth = CeilLog2(Len(args.data.block.tx))

C37_Witness ==
    /\ ret.fn = "extractProofInfo"
    /\ ret.ok
    /\ ret.proof.segwit
    /\ Len(args.data.block.tx) = 3
    /\ ret.proof.txIndex = 2
    /\ ret.proof.treeDepth = 2
    /\ Len(ret.proof.wproof) = 2

\* ------------------------------------------------------------------ C38
\* the last step reported the failure of an execution for txid t: the 500
\* of requestProof or the log of the .catch reaction of startJob
FailureReported(t) ==
    /\ resp.txid = t
    /\ \/ resp.op = "requestProof" /\ resp.http = 500
       \/ resp.op = "kennyJob" /\ resp.status = "failed"

C39_FeeOrderAndCaps ==
    (ret.fn = "fees" /\ ret.http = 200)
       => /\ 1 <= ret.low
          /\ ret.low < ret.medium
          /\ ret.medium < ret.high
          /\ ret.low <= 5
          /\ ret.medium <= 10
          /\ ret.high <= 20

C39_Witness ==
    /\ ret.fn = "fees"
    /\ ret.http = 200
    /\ args.hasFeerate
    /\ args.feerate = MaxFeeRate
    /\ ret.low = 5
    /\ ret.medium = 10
    /\ ret.high = 20

====
